---- MODULE Spec2Model ----
(***************************************************************************)
(* Model of the HIOT monitoring/alerting code.                             *)
(*                                                                         *)
(*   HumidityMonitor   src/tbd/scheduler.py            (service "api")     *)
(*   TelegramNotifier  src/app/telegram_notifier.py    (send methods)      *)
(*   Monitor           src/telegram_responder/state_checker.py             *)
(*                                                     (service "responder")*)
(*                                                                         *)
(* The two services are separate programs; a behaviour runs one of them.   *)
(* Units: time in minutes, humidity in tenths of a percent.                *)
(* Coroutines run on one asyncio event loop: the variable cpu names the    *)
(* coroutine that is executing between two awaits ("idle" when every       *)
(* coroutine is suspended); a coroutine is resumed only when cpu is idle   *)
(* and gives the cpu back at an await that really suspends.                *)
(***************************************************************************)
EXTENDS Integers, Sequences, FiniteSets, TLC

\* ------------------------------------------------------------------ sets
\* ids a row of humidity_sensors may have
Sensors == {1, 2}
Tasks == {"t1", "t2"}
Callers == {"c1", "c2"}
NoTask == "None"
\* requests to POST /monitor/check-now that can be in progress
Requests == {"r1"}
\* the coroutines that run _check_all_sensors
Execs == Tasks \cup Requests
\* clock values the model visits (minutes)
Instants == {0, 235, 240}
\* humidity readings a sensor may report (tenths of a percent)
HumValues == {80, 500, 750}

\* ------------------------------------------------- HumidityMonitor.__init__
check_interval == 5
humidity_threshold_high == 700
humidity_threshold_low == 300
connection_threshold_minutes == 70
alert_cooldown == 240

VARIABLES
    service,                \* the program that runs: "api", "responder", "level", ...
    clock,                  \* datetime.utcnow() / time.time()
    sensors,                \* ids of the rows of humidity_sensors
    last_connection,        \* HumiditySensor.last_connection, per sensor
    reading,                \* latest HumidityMeasurement.humidity per sensor, <<>> if none
    sensor_name,            \* HumiditySensor.name, per sensor
    enabled,                \* TelegramNotifier._enabled
    last_humidity_alert,    \* HumidityMonitor._last_humidity_alert
    last_connection_alert,  \* HumidityMonitor._last_connection_alert
    monitor_task,           \* HumidityMonitor._monitor_task
    cpu,                    \* coroutine running on the event loop
    pc,                     \* position of each _monitoring_loop task
    idx,                    \* position of the for loop of the running pass
    now,                    \* local variable now
    stale_sensors,          \* local variable stale_sensors
    latest_readings,        \* local variable latest_readings
    wake,                   \* deadline of the pending asyncio.sleep
    cancel_req,             \* Task.cancel() was called on the task
    alert_sent,             \* local variable alert_sent
    msg,                    \* alert handed to the notifier by the pending send
    raised,                 \* pass that raised in the current cycle
    hum_ran,                \* the humidity pass was entered in the current cycle
    callPc,                 \* position of each caller of start()/stop()
    call_task,              \* task a stop() call awaits
    call_result,            \* how the last start()/stop() call of a caller ended
    send_failed,            \* (kind, sensor) whose latest send returned False
    recorded_kind,          \* direction of the last recorded humidity alert
    m_running,              \* Monitor.running
    m_task,                 \* Monitor.task: "None", or the position of the task
    m_cancel,               \* Task.cancel() was called on Monitor.task
    m_sleep_i,              \* iterations of the sleep loop begun
    m_alert,                \* message handed to _send_alert
    m_chat_i,               \* position in chat_ids
    m_successful_sends,     \* local variable successful_sends
    m_last_alert,           \* Monitor.last_alert, <<>> if None
    m_last_alert_time,      \* Monitor.last_alert_time, <<>> if None
    m_bot,                  \* Monitor.bot is set
    m_callPc,               \* position of the caller of start_async()/stop_async()
    m_call_result,          \* how the last start_async()/stop_async() call ended
    m_attempts,             \* the sends of the current (or last) batch of _send_alert
    lv_humidity,            \* input of the severity rule: humidity
    lv_high,                \* input: humidity_threshold_high
    lv_low,                 \* input: humidity_threshold_low
    lv_out,                 \* result of the severity rule, <<>> before it ran
    ga_sensor,              \* get_alert_text: the sensor row (its four levels)
    ga_humidity,            \* get_alert_text: measurement.humidity
    ga_out,                 \* get_alert_text: the icon chosen, <<>> before it ran
    ck_rows,                \* check_humidity: humidity_sensors with their measurements
    ck_out,                 \* check_humidity: the response, <<>> before it ran
    tp_templates,           \* TelegramNotifier._templates
    tp_log,                 \* the add_template calls made so far
    tp_out,                 \* outcome of the last send_with_template_async call
    lt_rows,                \* the rows of humidity_measurements, in id order
    lt_qlen,                \* number of rows when the running pass made its query
    lt_snapshot,            \* local variable latest_readings of the running pass
    lt_i,                   \* position of the for loop over latest_readings
    lt_seen,                \* the readings the running pass has evaluated
    eg_pc,                  \* position in create_database_engine_with_retry
    eg_elapsed,             \* time.time() - start_time of wait_for_db_host, seconds
    eg_attempt,             \* loop variable attempt
    eg_tries,               \* connection attempts made so far
    eg_slept,               \* seconds slept in time.sleep(retry_delay)
    eg_result,              \* what the function returned or that it raised
    eg_module,              \* outcome of the module initialisation of session.py
    id_pc,                  \* position in init_database
    id_max_retries,         \* parameter max_retries
    id_retry_delay,         \* parameter retry_delay, seconds
    id_attempt,             \* loop variable attempt
    id_engine,              \* global engine: <<>> or <<attempt that created it>>
    id_SessionLocal,        \* global SessionLocal: <<>> or <<attempt that created it>>
    id_slept,               \* seconds slept in time.sleep(retry_delay)
    id_log,                 \* outcome of each attempt made so far
    id_result,              \* what init_database returned or raised
    m_delivered,            \* time of the last send of _send_alert that returned, <<>> if none
    cm_last,                \* create_measurement: the last request and its outcome, <<>> if none
    ch_user_data,           \* context.user_data of each user: <<>> or <<renaming_sensor_id>>
    ch_offered,             \* users who were shown the inline keyboard of the rename command
    ch_last,                \* the last update the bot handled and what it did with it, <<>> if none
    ap_pc,                  \* AsyncApplication: position of run() and of the shutdown() it calls
    ap_event,               \* shutdown_event is set
    ap_monitor,             \* self.monitor is set
    ap_bot,                 \* self.bot is set
    ap_monitor_task,        \* self.monitor_task: "None", "new", "alive" or "done"
    ap_bot_task,            \* self.bot_task: "None", "new", "alive" or "done"
    ap_cancel,              \* the tasks cancel() was called on
    ap_bot_running,         \* TelegramBot.running
    ap_failed,              \* run() caught an exception that it raises again
    ap_log                  \* the stop_async calls shutdown() made and how each ended

apiVars == <<sensors, last_connection, reading, sensor_name, enabled, last_humidity_alert,
          last_connection_alert, monitor_task, cpu, pc, idx, now,
          stale_sensors, latest_readings, wake, cancel_req, alert_sent, msg,
          raised, hum_ran, callPc, call_task, call_result, send_failed,
          recorded_kind>>
responderVars == <<m_running, m_task, m_cancel, m_sleep_i, m_alert, m_chat_i,
          m_successful_sends, m_last_alert, m_last_alert_time, m_bot, m_callPc,
          m_call_result, m_attempts>>
levelVars == <<lv_humidity, lv_high, lv_low, lv_out>>

displayVars == <<ga_sensor, ga_humidity, ga_out, ck_rows, ck_out>>
templateVars == <<tp_templates, tp_log, tp_out>>
latestVars == <<lt_rows, lt_qlen, lt_snapshot, lt_i, lt_seen>>
engineVars == <<eg_pc, eg_elapsed, eg_attempt, eg_tries, eg_slept, eg_result, eg_module>>
initDbVars == <<id_pc, id_max_retries, id_retry_delay, id_attempt, id_engine,
                id_SessionLocal, id_slept, id_log, id_result>>
rateVars == <<m_delivered>>
ingestVars == <<cm_last>>
chatVars == <<ch_user_data, ch_offered, ch_last>>
appVars == <<ap_pc, ap_event, ap_monitor, ap_bot, ap_monitor_task, ap_bot_task, ap_cancel,
             ap_bot_running, ap_failed, ap_log>>
lateVars == <<rateVars, ingestVars, chatVars, appVars>>
moreVars == <<latestVars, engineVars, initDbVars, lateVars>>
extVars == <<displayVars, templateVars, moreVars>>

vars == <<service, clock, apiVars, responderVars, levelVars, extVars>>

dbVars == <<sensors, last_connection, reading, sensor_name>>
dedupVars == <<last_humidity_alert, last_connection_alert, send_failed, recorded_kind>>
localVars == <<idx, now, stale_sensors, latest_readings, wake, alert_sent, msg, raised, hum_ran>>
callVars == <<callPc, call_task, call_result>>

\* ------------------------------------------------------------- helpers
RECURSIVE SortedSeq(_)
SortedSeq(S) ==
    IF S = {} THEN <<>>
    ELSE LET m == CHOOSE x \in S : \A y \in S : x <= y
         IN  <<m>> \o SortedSeq(S \ {m})

\* the sensors last connected this long before the monitor was constructed
StartupAge == connection_threshold_minutes + check_interval

NoMsg == [kind |-> "none", sensor |-> 0, level |-> "none", threshold |-> 0, value |-> 0]

\* variant: the cooldown still holds at exactly alert_cooldown
InCooldownInclusive(map, s, n) == s \in DOMAIN map /\ n - map[s] <= alert_cooldown

\* variant: the difference is taken the wrong way round
InCooldownReversed(map, s, n) == s \in DOMAIN map /\ map[s] - n < alert_cooldown

\* variant: one timestamp for all sensors
InCooldownAnySensor(map, s, n) == \E x \in DOMAIN map : n - map[x] < alert_cooldown

\* `sensor_id in map and now - map[sensor_id] < self.alert_cooldown`
InCooldown(map, s, n) == s \in DOMAIN map /\ n - map[s] < alert_cooldown

\* variant: the timestamp is written whatever the send returned
MarkAlertAlways(map, s, n, sent) ==
    [x \in DOMAIN map \cup {s} |-> IF x = s THEN n ELSE map[x]]

\* `if alert_sent: map[sensor_id] = now`
MarkAlert(map, s, n, sent) ==
    IF sent THEN [x \in DOMAIN map \cup {s} |-> IF x = s THEN n ELSE map[x]]
    ELSE map

ConnSuppressed(s, n) == InCooldown(last_connection_alert, s, n)
HumSuppressed(s, n) == InCooldown(last_humidity_alert, s, n)

\* variant: a sensor exactly at the threshold counts as stale
IsStaleInclusive(s, n) == last_connection[s] <= n - connection_threshold_minutes

\* `HumiditySensor.last_connection < threshold_time`
IsStale(s, n) == last_connection[s] < n - connection_threshold_minutes

\* db.query(HumiditySensor).filter(last_connection < threshold_time).all()
StaleQuery(n) == SortedSeq({s \in sensors : IsStale(s, n)})

\* _get_latest_measurements: one row per sensor, humidity None without a measurement
\* variant: a sensor without measurements is reported with a humidity of 0
LatestRowZeroFilled(s) ==
    [sensor_id |-> s, humidity |-> IF reading[s] = <<>> THEN <<0>> ELSE reading[s]]

\* one row of the outer joins: the humidity is None (<<>>) without measurements
LatestRow(s) == [sensor_id |-> s, humidity |-> reading[s]]

RECURSIVE LatestRows(_)
LatestRows(ids) ==
    IF ids = <<>> THEN <<>>
    ELSE <<LatestRow(Head(ids))>> \o LatestRows(Tail(ids))
LatestQuery == LatestRows(SortedSeq(sensors))

\* `humidity > high or humidity < low`
OutOfRange(h, high, low) == h > high \/ h < low

\* `threshold = high if humidity > high else low`
AlertThreshold(h, high, low) == IF h > high THEN high ELSE low

\* variant: the escalation bounds are inclusive
AlertLevelOfInclusive(h, high, low) ==
    IF 100 * h >= 115 * high \/ 100 * h <= 85 * low THEN "CRITICAL" ELSE "WARNING"

\* `humidity > high * 1.15 or humidity < low * 0.85` -> CRITICAL, else WARNING
AlertLevelOf(h, high, low) ==
    IF 100 * h > 115 * high \/ 100 * h < 85 * low THEN "CRITICAL" ELSE "WARNING"

\* the alert _check_humidity_levels raises for a reading
HumidityAlert(h, high, low) ==
    IF OutOfRange(h, high, low)
    THEN [alert |-> TRUE, level |-> AlertLevelOf(h, high, low),
          threshold |-> AlertThreshold(h, high, low)]
    ELSE [alert |-> FALSE, level |-> "none", threshold |-> 0]

HumDirection(h) == IF h > humidity_threshold_high THEN "high" ELSE "low"

Suspended(t) == pc[t] \in {"new", "conn_send", "hum_send", "err_send", "sleep"} /\ cpu = "idle"

\* --------------------------------------------------------------- Init
ApiInit(rows) ==
    /\ sensors = rows
    /\ last_connection = [s \in Sensors |-> 0 - StartupAge]
    /\ reading = [s \in Sensors |-> <<>>]
    /\ sensor_name = [s \in Sensors |-> "Unknown"]
    /\ enabled \in BOOLEAN
    /\ last_humidity_alert = <<>>
    /\ last_connection_alert = <<>>
    /\ monitor_task = NoTask
    /\ cpu = "idle"
    /\ pc = [t \in Execs |-> "free"]
    /\ idx = [t \in Execs |-> 0]
    /\ now = [t \in Execs |-> 0]
    /\ stale_sensors = [t \in Execs |-> <<>>]
    /\ latest_readings = [t \in Execs |-> <<>>]
    /\ wake = [t \in Execs |-> 0]
    /\ cancel_req = [t \in Execs |-> FALSE]
    /\ alert_sent = [t \in Execs |-> FALSE]
    /\ msg = [t \in Execs |-> NoMsg]
    /\ raised = [t \in Execs |-> "none"]
    /\ hum_ran = [t \in Execs |-> FALSE]
    /\ callPc = [c \in Callers |-> "idle"]
    /\ call_task = [c \in Callers |-> NoTask]
    /\ call_result = [c \in Callers \cup Requests |-> "none"]
    /\ send_failed = {}
    /\ recorded_kind = [s \in Sensors |-> "none"]

\* ------------------------------------------------------- environment
\* Wall-clock time passes while every coroutine is suspended.
Tick(t) ==
    /\ cpu = "idle"
    /\ t > clock /\ clock' = t
    /\ UNCHANGED <<dbVars, enabled, dedupVars, monitor_task, cpu, pc, localVars,
                   cancel_req, callVars>>

\* create_measurement: a sensor reports a reading h
Ingest(s, h) ==
    /\ cpu = "idle"
    /\ s \in sensors
    /\ last_connection' = [last_connection EXCEPT ![s] = clock]
    /\ reading' = [reading EXCEPT ![s] = <<h>>]
    /\ UNCHANGED <<clock, sensors, sensor_name, enabled, dedupVars, monitor_task, cpu, pc,
                   localVars, cancel_req, callVars>>

\* names given by POST /humiditySensors/rename
NewNames == {"cellar", "attic"}

\* rename_humidity_sensor: 404 for an unknown sensor, else update and commit
Rename(s, n) ==
    /\ cpu = "idle"
    /\ s \in sensors
    /\ sensor_name' = [sensor_name EXCEPT ![s] = n]
    /\ UNCHANGED <<clock, sensors, last_connection, reading, enabled, dedupVars,
                   monitor_task, cpu, pc, localVars, cancel_req, callVars>>

\* ------------------------------------------- HumidityMonitor coroutines
\* A send of the notifier suspends the coroutine only when the bot really
\* sends; a disabled notifier returns False without yielding.
AfterSendCall(self) == IF enabled THEN "idle" ELSE self

\* variant: a disabled notifier may report a send as done
SendReturnsDisabledOk(self, ok) ==
    \/ enabled /\ cpu = "idle"
    \/ ~enabled /\ cpu = self

SendReturns(self, ok) ==
    \/ enabled /\ cpu = "idle"
    \/ ~enabled /\ cpu = self /\ ok = FALSE

\* first step of a created task
TaskStart(t) ==
    /\ cpu = "idle" /\ pc[t] = "new" /\ ~cancel_req[t]
    /\ pc' = [pc EXCEPT ![t] = "cycle"]
    /\ cpu' = t
    /\ UNCHANGED <<clock, dbVars, enabled, dedupVars, monitor_task, localVars,
                   cancel_req, callVars>>

\* `await asyncio.sleep(self.check_interval)` returns
SleepDone(t) ==
    /\ cpu = "idle" /\ pc[t] = "sleep" /\ ~cancel_req[t]
    /\ clock >= wake[t]
    /\ pc' = [pc EXCEPT ![t] = "cycle"]
    /\ wake' = [wake EXCEPT ![t] = 0]
    /\ cpu' = t
    /\ UNCHANGED <<clock, dbVars, enabled, dedupVars, monitor_task, idx, now, stale_sensors,
                   latest_readings, alert_sent, msg, raised, hum_ran, cancel_req, callVars>>

\* variant: a sleeping task sees the cancellation only when the sleep is over
CancelledAtWake(t) ==
    /\ Suspended(t) /\ cancel_req[t]
    /\ pc[t] = "sleep" => clock >= wake[t]
    /\ pc' = [pc EXCEPT ![t] = "done"]
    /\ idx' = [idx EXCEPT ![t] = 0]
    /\ stale_sensors' = [stale_sensors EXCEPT ![t] = <<>>]
    /\ latest_readings' = [latest_readings EXCEPT ![t] = <<>>]
    /\ msg' = [msg EXCEPT ![t] = NoMsg]
    /\ now' = [now EXCEPT ![t] = 0]
    /\ wake' = [wake EXCEPT ![t] = 0]
    /\ alert_sent' = [alert_sent EXCEPT ![t] = FALSE]
    /\ raised' = [raised EXCEPT ![t] = "none"]
    /\ hum_ran' = [hum_ran EXCEPT ![t] = FALSE]
    /\ UNCHANGED <<clock, dbVars, enabled, dedupVars, monitor_task, cpu, cancel_req,
                   callVars>>

\* CancelledError is thrown into the task at the await it is suspended at;
\* `except Exception` does not catch it, the task ends.
Cancelled(t) ==
    /\ Suspended(t) /\ cancel_req[t]
    /\ pc' = [pc EXCEPT ![t] = "done"]
    /\ idx' = [idx EXCEPT ![t] = 0]
    /\ stale_sensors' = [stale_sensors EXCEPT ![t] = <<>>]
    /\ latest_readings' = [latest_readings EXCEPT ![t] = <<>>]
    /\ msg' = [msg EXCEPT ![t] = NoMsg]
    /\ now' = [now EXCEPT ![t] = 0]
    /\ wake' = [wake EXCEPT ![t] = 0]
    /\ alert_sent' = [alert_sent EXCEPT ![t] = FALSE]
    /\ raised' = [raised EXCEPT ![t] = "none"]
    /\ hum_ran' = [hum_ran EXCEPT ![t] = FALSE]
    /\ UNCHANGED <<clock, dbVars, enabled, dedupVars, monitor_task, cpu, cancel_req,
                   callVars>>

\* _check_all_sensors up to the query of _check_sensor_connections
ConnQuery(t, db_ok) ==
    /\ cpu = t /\ pc[t] = "cycle"
    /\ now' = [now EXCEPT ![t] = clock]
    /\ hum_ran' = [hum_ran EXCEPT ![t] = FALSE]
    /\  IF db_ok
        THEN /\ stale_sensors' = [stale_sensors EXCEPT ![t] = StaleQuery(clock)]
             /\ idx' = [idx EXCEPT ![t] = 1]
             /\ pc' = [pc EXCEPT ![t] = "conn_eval"]
             /\ raised' = [raised EXCEPT ![t] = "none"]
        ELSE /\ raised' = [raised EXCEPT ![t] = "connection"]
             /\ pc' = [pc EXCEPT ![t] = "handler"]
             /\ UNCHANGED <<stale_sensors, idx>>
    /\ UNCHANGED <<clock, dbVars, enabled, dedupVars, monitor_task, cpu, latest_readings,
                   wake, alert_sent, msg, cancel_req, callVars>>

\* variant: the threshold pass starts after the first stale sensor
ConnEvalFirstOnly(t) ==
    /\ cpu = t /\ pc[t] = "conn_eval"
    /\ IF idx[t] > Len(stale_sensors[t]) \/ idx[t] > 1
       THEN /\ pc' = [pc EXCEPT ![t] = "hum_query"]
            /\ idx' = [idx EXCEPT ![t] = 0]
            /\ stale_sensors' = [stale_sensors EXCEPT ![t] = <<>>]
            /\ now' = [now EXCEPT ![t] = 0]
            /\ alert_sent' = [alert_sent EXCEPT ![t] = FALSE]
            /\ UNCHANGED <<msg, cpu>>
       ELSE LET s == stale_sensors[t][idx[t]] IN
            IF ConnSuppressed(s, now[t])
            THEN /\ idx' = [idx EXCEPT ![t] = idx[t] + 1]
                 /\ UNCHANGED <<pc, msg, cpu, stale_sensors, now, alert_sent>>
            ELSE /\ pc' = [pc EXCEPT ![t] = "conn_send"]
                 /\ msg' = [msg EXCEPT ![t] =
                        [kind |-> "connection", sensor |-> s, level |-> "WARNING",
                         threshold |-> connection_threshold_minutes, value |-> 0]]
                 /\ cpu' = AfterSendCall(t)
                 /\ UNCHANGED <<idx, stale_sensors, now, alert_sent>>
    /\ UNCHANGED <<clock, dbVars, enabled, dedupVars, monitor_task, latest_readings,
                   wake, raised, hum_ran, cancel_req, callVars>>

\* one iteration of `for sensor in stale_sensors`, up to the await of the send
ConnEval(t) ==
    /\ cpu = t /\ pc[t] = "conn_eval"
    /\ IF idx[t] > Len(stale_sensors[t])
       THEN /\ pc' = [pc EXCEPT ![t] = "hum_query"]
            /\ idx' = [idx EXCEPT ![t] = 0]
            /\ stale_sensors' = [stale_sensors EXCEPT ![t] = <<>>]
            /\ now' = [now EXCEPT ![t] = 0]
            /\ alert_sent' = [alert_sent EXCEPT ![t] = FALSE]
            /\ UNCHANGED <<msg, cpu>>
       ELSE LET s == stale_sensors[t][idx[t]] IN
            IF ConnSuppressed(s, now[t])
            THEN /\ idx' = [idx EXCEPT ![t] = idx[t] + 1]
                 /\ UNCHANGED <<pc, msg, cpu, stale_sensors, now, alert_sent>>
            ELSE /\ pc' = [pc EXCEPT ![t] = "conn_send"]
                 /\ msg' = [msg EXCEPT ![t] =
                        [kind |-> "connection", sensor |-> s, level |-> "WARNING",
                         threshold |-> connection_threshold_minutes, value |-> 0]]
                 /\ cpu' = AfterSendCall(t)
                 /\ UNCHANGED <<idx, stale_sensors, now, alert_sent>>
    /\ UNCHANGED <<clock, dbVars, enabled, dedupVars, monitor_task, latest_readings,
                   wake, raised, hum_ran, cancel_req, callVars>>

\* variant: a notified sensor is written back as seen at the time of the pass
ConnSendDoneWriteBack(t, ok) ==
    /\ pc[t] = "conn_send" /\ ~cancel_req[t] /\ SendReturns(t, ok)
    /\ LET s == stale_sensors[t][idx[t]] IN
        /\ alert_sent' = [alert_sent EXCEPT ![t] = ok]
        /\ last_connection' = IF ok THEN [last_connection EXCEPT ![s] = now[t]]
                              ELSE last_connection
        /\ last_connection_alert' = MarkAlert(last_connection_alert, s, now[t], ok)
        /\ send_failed' = IF ok THEN send_failed \ {<<"connection", s>>}
                          ELSE send_failed \cup {<<"connection", s>>}
    /\ idx' = [idx EXCEPT ![t] = idx[t] + 1]
    /\ pc' = [pc EXCEPT ![t] = "conn_eval"]
    /\ msg' = [msg EXCEPT ![t] = NoMsg]
    /\ cpu' = t
    /\ UNCHANGED <<clock, sensors, reading, sensor_name, enabled, last_humidity_alert, recorded_kind, monitor_task,
                   now, stale_sensors, latest_readings, wake, raised, hum_ran,
                   cancel_req, callVars>>

\* send_connection_alert_async returns; `if alert_sent: ...[sensor.id] = now`
ConnSendDone(t, ok) ==
    /\ pc[t] = "conn_send" /\ ~cancel_req[t] /\ SendReturns(t, ok)
    /\ LET s == stale_sensors[t][idx[t]] IN
        /\ alert_sent' = [alert_sent EXCEPT ![t] = ok]
        /\ last_connection_alert' = MarkAlert(last_connection_alert, s, now[t], ok)
        /\ send_failed' = IF ok THEN send_failed \ {<<"connection", s>>}
                          ELSE send_failed \cup {<<"connection", s>>}
    /\ idx' = [idx EXCEPT ![t] = idx[t] + 1]
    /\ pc' = [pc EXCEPT ![t] = "conn_eval"]
    /\ msg' = [msg EXCEPT ![t] = NoMsg]
    /\ cpu' = t
    /\ UNCHANGED <<clock, dbVars, enabled, last_humidity_alert, recorded_kind, monitor_task,
                   now, stale_sensors, latest_readings, wake, raised, hum_ran,
                   cancel_req, callVars>>

\* _check_humidity_levels: the query of _get_latest_measurements
HumQuery(t, db_ok) ==
    /\ cpu = t /\ pc[t] = "hum_query"
    /\ hum_ran' = [hum_ran EXCEPT ![t] = TRUE]
    /\  IF db_ok
        THEN /\ latest_readings' = [latest_readings EXCEPT ![t] = LatestQuery]
             /\ idx' = [idx EXCEPT ![t] = 1]
             /\ pc' = [pc EXCEPT ![t] = "hum_eval"]
             /\ UNCHANGED raised
        ELSE /\ raised' = [raised EXCEPT ![t] = "humidity"]
             /\ pc' = [pc EXCEPT ![t] = "handler"]
             /\ UNCHANGED <<latest_readings, idx>>
    /\ UNCHANGED <<clock, dbVars, enabled, dedupVars, monitor_task, cpu, now, stale_sensors,
                   wake, alert_sent, msg, cancel_req, callVars>>

\* the pass is over: `finally: db.close()`, then `await asyncio.sleep(...)`
GoToSleep(t) ==
    /\ pc' = [pc EXCEPT ![t] = "sleep"]
    /\ wake' = [wake EXCEPT ![t] = clock + check_interval]
    /\ idx' = [idx EXCEPT ![t] = 0]
    /\ latest_readings' = [latest_readings EXCEPT ![t] = <<>>]
    /\ msg' = [msg EXCEPT ![t] = NoMsg]
    /\ now' = [now EXCEPT ![t] = 0]
    /\ alert_sent' = [alert_sent EXCEPT ![t] = FALSE]
    /\ cpu' = "idle"

\* the pass is over in a request: _check_all_sensors returns to the endpoint
CycleReturns(r) ==
    /\ pc' = [pc EXCEPT ![r] = "returning"]
    /\ idx' = [idx EXCEPT ![r] = 0]
    /\ latest_readings' = [latest_readings EXCEPT ![r] = <<>>]
    /\ msg' = [msg EXCEPT ![r] = NoMsg]
    /\ now' = [now EXCEPT ![r] = 0]
    /\ alert_sent' = [alert_sent EXCEPT ![r] = FALSE]
    /\ UNCHANGED <<wake, cpu>>

\* one iteration of `for ... in latest_readings`, up to the await of the send
HumEval(t) ==
    /\ cpu = t /\ pc[t] = "hum_eval"
    /\ IF idx[t] > Len(latest_readings[t])
       THEN /\ IF t \in Requests THEN CycleReturns(t) ELSE GoToSleep(t)
            /\ UNCHANGED <<raised, hum_ran>>
       ELSE LET s == latest_readings[t][idx[t]].sensor_id
                r == latest_readings[t][idx[t]].humidity
            IN
            IF r = <<>>
            THEN /\ idx' = [idx EXCEPT ![t] = idx[t] + 1]
                 /\ UNCHANGED <<pc, msg, cpu, now, wake, latest_readings, alert_sent,
                                raised, hum_ran>>
            ELSE /\ now' = [now EXCEPT ![t] = clock]
                 /\ IF /\ HumidityAlert(r[1], humidity_threshold_high,
                                        humidity_threshold_low).alert
                       /\ ~HumSuppressed(s, clock)
                    THEN /\ pc' = [pc EXCEPT ![t] = "hum_send"]
                         /\ msg' = [msg EXCEPT ![t] =
                                [kind |-> "humidity", sensor |-> s,
                                 level |-> HumidityAlert(r[1], humidity_threshold_high,
                                                         humidity_threshold_low).level,
                                 threshold |-> HumidityAlert(r[1], humidity_threshold_high,
                                                             humidity_threshold_low).threshold,
                                 value |-> r[1]]]
                         /\ cpu' = AfterSendCall(t)
                         /\ UNCHANGED <<idx, wake, latest_readings>>
                    ELSE /\ idx' = [idx EXCEPT ![t] = idx[t] + 1]
                         /\ UNCHANGED <<pc, msg, cpu, wake, latest_readings>>
                 /\ UNCHANGED <<alert_sent, raised, hum_ran>>
    /\ UNCHANGED <<clock, dbVars, enabled, dedupVars, monitor_task, stale_sensors,
                   cancel_req, callVars>>

\* send_humidity_alert_async returns; `if alert_sent: ...[sensor_id] = now`
HumSendDone(t, ok) ==
    /\ pc[t] = "hum_send" /\ ~cancel_req[t] /\ SendReturns(t, ok)
    /\ LET s == latest_readings[t][idx[t]].sensor_id IN
        /\ alert_sent' = [alert_sent EXCEPT ![t] = ok]
        /\ last_humidity_alert' = MarkAlert(last_humidity_alert, s, now[t], ok)
        /\ send_failed' = IF ok THEN send_failed \ {<<"humidity", s>>}
                          ELSE send_failed \cup {<<"humidity", s>>}
        /\ recorded_kind' = IF ok
                            THEN [recorded_kind EXCEPT ![s] = HumDirection(msg[t].value)]
                            ELSE recorded_kind
    /\ idx' = [idx EXCEPT ![t] = idx[t] + 1]
    /\ pc' = [pc EXCEPT ![t] = "hum_eval"]
    /\ msg' = [msg EXCEPT ![t] = NoMsg]
    /\ cpu' = t
    /\ UNCHANGED <<clock, dbVars, enabled, last_connection_alert, monitor_task,
                   now, stale_sensors, latest_readings, wake, raised, hum_ran,
                   cancel_req, callVars>>

\* variant: the exception of a cycle ends the loop
HandlerGivesUp(t) ==
    /\ cpu = t /\ pc[t] = "handler"
    /\ pc' = [pc EXCEPT ![t] = "done"]
    /\ idx' = [idx EXCEPT ![t] = 0]
    /\ stale_sensors' = [stale_sensors EXCEPT ![t] = <<>>]
    /\ latest_readings' = [latest_readings EXCEPT ![t] = <<>>]
    /\ now' = [now EXCEPT ![t] = 0]
    /\ alert_sent' = [alert_sent EXCEPT ![t] = FALSE]
    /\ cpu' = "idle"
    /\ UNCHANGED <<clock, dbVars, enabled, dedupVars, monitor_task, wake, msg,
                   raised, hum_ran, cancel_req, callVars>>

\* _monitoring_loop: `except Exception`, up to the await of the system alert
Handler(t) ==
    /\ cpu = t /\ pc[t] = "handler"
    /\ pc' = [pc EXCEPT ![t] = "err_send"]
    /\ msg' = [msg EXCEPT ![t] =
            [kind |-> "system:Monitor Error", sensor |-> 0, level |-> "CRITICAL",
             threshold |-> 0, value |-> 0]]
    /\ idx' = [idx EXCEPT ![t] = 0]
    /\ stale_sensors' = [stale_sensors EXCEPT ![t] = <<>>]
    /\ latest_readings' = [latest_readings EXCEPT ![t] = <<>>]
    /\ now' = [now EXCEPT ![t] = 0]
    /\ alert_sent' = [alert_sent EXCEPT ![t] = FALSE]
    /\ cpu' = AfterSendCall(t)
    /\ UNCHANGED <<clock, dbVars, enabled, dedupVars, monitor_task, wake,
                   raised, hum_ran, cancel_req, callVars>>

\* send_system_alert_async returns (its result is not used), then the sleep
ErrSendDone(t, ok) ==
    /\ pc[t] = "err_send" /\ ~cancel_req[t] /\ SendReturns(t, ok)
    /\ GoToSleep(t)
    /\ UNCHANGED <<clock, dbVars, enabled, dedupVars, monitor_task, stale_sensors,
                   raised, hum_ran, cancel_req, callVars>>

\* ------------------------------------------------ start() and stop()
FreeTask == CHOOSE t \in Tasks : pc[t] = "free"

\* variant: start() without the `if self._monitor_task` check
StartCallUnguarded(c) ==
    /\ cpu = "idle" /\ callPc[c] = "idle"
    /\ callPc' = [callPc EXCEPT ![c] = "start_send"]
    /\ call_result' = [call_result EXCEPT ![c] = "none"]
    /\ cpu' = AfterSendCall(c)
    /\ UNCHANGED <<clock, dbVars, enabled, dedupVars, monitor_task, pc, localVars,
                   cancel_req, call_task>>

\* start(): `if self._monitor_task: return`, else up to the await of the
\* "Monitoring Started" system alert
StartCall(c) ==
    /\ cpu = "idle" /\ callPc[c] = "idle"
    /\ IF monitor_task # NoTask
       THEN /\ call_result' = [call_result EXCEPT ![c] = "start_noop"]
            /\ UNCHANGED <<callPc, cpu>>
       ELSE /\ callPc' = [callPc EXCEPT ![c] = "start_send"]
            /\ call_result' = [call_result EXCEPT ![c] = "none"]
            /\ cpu' = AfterSendCall(c)
    /\ UNCHANGED <<clock, dbVars, enabled, dedupVars, monitor_task, pc, localVars,
                   cancel_req, call_task>>

\* start(): the send returned; `self._monitor_task = asyncio.create_task(...)`
StartSendDone(c, ok) ==
    /\ callPc[c] = "start_send" /\ SendReturns(c, ok)
    /\ \E t \in Tasks : pc[t] = "free"
    /\ pc' = [pc EXCEPT ![FreeTask] = "new"]
    /\ monitor_task' = FreeTask
    /\ callPc' = [callPc EXCEPT ![c] = "idle"]
    /\ call_result' = [call_result EXCEPT ![c] = "started"]
    /\ cpu' = "idle"
    /\ UNCHANGED <<clock, dbVars, enabled, dedupVars, localVars, cancel_req, call_task>>

\* the task object is dropped once nothing refers to it
Release(t) ==
    /\ pc' = [pc EXCEPT ![t] = "free"]
    /\ cancel_req' = [cancel_req EXCEPT ![t] = FALSE]
    /\ raised' = [raised EXCEPT ![t] = "none"]
    /\ hum_ran' = [hum_ran EXCEPT ![t] = FALSE]
    /\ now' = [now EXCEPT ![t] = 0]
    /\ wake' = [wake EXCEPT ![t] = 0]
    /\ alert_sent' = [alert_sent EXCEPT ![t] = FALSE]

\* stop(): `if not self._monitor_task: return`, else cancel() and
\* `await self._monitor_task`
StopCall(c) ==
    /\ cpu = "idle" /\ callPc[c] = "idle"
    /\ IF monitor_task = NoTask
       THEN /\ call_result' = [call_result EXCEPT ![c] = "stop_noop"]
            /\ UNCHANGED <<callPc, call_task, cancel_req>>
       ELSE /\ cancel_req' = [cancel_req EXCEPT ![monitor_task] = TRUE]
            /\ callPc' = [callPc EXCEPT ![c] = "stop_wait"]
            /\ call_task' = [call_task EXCEPT ![c] = monitor_task]
            /\ call_result' = [call_result EXCEPT ![c] = "none"]
    /\ UNCHANGED <<clock, dbVars, enabled, dedupVars, monitor_task, cpu, pc, localVars>>

\* variant: stop() does not await the cancelled task
StopResumeEarly(c) ==
    /\ cpu = "idle" /\ callPc[c] = "stop_wait"
    /\ monitor_task' = NoTask
    /\ callPc' = [callPc EXCEPT ![c] = "idle"]
    /\ call_task' = [call_task EXCEPT ![c] = NoTask]
    /\ call_result' = [call_result EXCEPT ![c] = "stopped"]
    /\ UNCHANGED <<pc, cancel_req, raised, hum_ran, now, wake, alert_sent>>
    /\ UNCHANGED <<clock, dbVars, enabled, dedupVars, cpu, idx, stale_sensors,
                   latest_readings, msg>>

\* variant: stop() returns without `self._monitor_task = None`
StopResumeKeepsTask(c) ==
    /\ cpu = "idle" /\ callPc[c] = "stop_wait"
    /\ pc[call_task[c]] = "done"
    /\ callPc' = [callPc EXCEPT ![c] = "idle"]
    /\ call_task' = [call_task EXCEPT ![c] = NoTask]
    /\ call_result' = [call_result EXCEPT ![c] = "stopped"]
    /\ Release(call_task[c])
    /\ UNCHANGED <<clock, dbVars, enabled, dedupVars, cpu, idx, stale_sensors,
                   latest_readings, msg, monitor_task>>

\* stop(): the awaited task is done; `self._monitor_task = None`
StopResume(c) ==
    /\ cpu = "idle" /\ callPc[c] = "stop_wait"
    /\ pc[call_task[c]] = "done"
    /\ monitor_task' = NoTask
    /\ callPc' = [callPc EXCEPT ![c] = "idle"]
    /\ call_task' = [call_task EXCEPT ![c] = NoTask]
    /\ call_result' = [call_result EXCEPT ![c] = "stopped"]
    /\ IF \E d \in Callers \ {c} : callPc[d] = "stop_wait" /\ call_task[d] = call_task[c]
       THEN UNCHANGED <<pc, cancel_req, raised, hum_ran, now, wake, alert_sent>>
       ELSE Release(call_task[c])
    /\ UNCHANGED <<clock, dbVars, enabled, dedupVars, cpu, idx, stale_sensors,
                   latest_readings, msg>>

\* start() and stop() are called one at a time, by the lifespan of the app
Lifespan == "c1"
NoCallInProgress == \A c \in Callers : callPc[c] = "idle"

\* ------------------------------------------- POST /monitor/check-now
\* the app serves requests between the startup and the shutdown of lifespan
Serving == monitor_task # NoTask /\ NoCallInProgress

\* trigger_immediate_check up to the first query of _check_all_sensors
CheckNowCall(r) ==
    /\ cpu = "idle" /\ pc[r] = "free" /\ Serving
    /\ pc' = [pc EXCEPT ![r] = "cycle"]
    /\ call_result' = [call_result EXCEPT ![r] = "none"]
    /\ cpu' = r
    /\ UNCHANGED <<clock, dbVars, enabled, dedupVars, monitor_task, localVars,
                   cancel_req, callPc, call_task>>

\* variant: the endpoint absorbs the exception of the cycle
CheckNowFailsAbsorbed(r) ==
    /\ cpu = r /\ pc[r] = "handler"
    /\ pc' = [pc EXCEPT ![r] = "free"]
    /\ call_result' = [call_result EXCEPT ![r] = "check completed"]
    /\ idx' = [idx EXCEPT ![r] = 0]
    /\ stale_sensors' = [stale_sensors EXCEPT ![r] = <<>>]
    /\ latest_readings' = [latest_readings EXCEPT ![r] = <<>>]
    /\ now' = [now EXCEPT ![r] = 0]
    /\ alert_sent' = [alert_sent EXCEPT ![r] = FALSE]
    /\ raised' = [raised EXCEPT ![r] = "none"]
    /\ hum_ran' = [hum_ran EXCEPT ![r] = FALSE]
    /\ cpu' = "idle"
    /\ UNCHANGED <<clock, dbVars, enabled, dedupVars, monitor_task, wake, msg,
                   cancel_req, callPc, call_task>>

\* `except Exception as e: raise HTTPException(status_code=500, ...)`
CheckNowFails(r) ==
    /\ cpu = r /\ pc[r] = "handler"
    /\ pc' = [pc EXCEPT ![r] = "free"]
    /\ call_result' = [call_result EXCEPT ![r] = "500"]
    /\ idx' = [idx EXCEPT ![r] = 0]
    /\ stale_sensors' = [stale_sensors EXCEPT ![r] = <<>>]
    /\ latest_readings' = [latest_readings EXCEPT ![r] = <<>>]
    /\ now' = [now EXCEPT ![r] = 0]
    /\ alert_sent' = [alert_sent EXCEPT ![r] = FALSE]
    /\ raised' = [raised EXCEPT ![r] = "none"]
    /\ hum_ran' = [hum_ran EXCEPT ![r] = FALSE]
    /\ cpu' = "idle"
    /\ UNCHANGED <<clock, dbVars, enabled, dedupVars, monitor_task, wake, msg,
                   cancel_req, callPc, call_task>>

\* `return {"status": "check completed"}`
CheckNowReturns(r) ==
    /\ cpu = r /\ pc[r] = "returning"
    /\ pc' = [pc EXCEPT ![r] = "free"]
    /\ call_result' = [call_result EXCEPT ![r] = "check completed"]
    /\ raised' = [raised EXCEPT ![r] = "none"]
    /\ hum_ran' = [hum_ran EXCEPT ![r] = FALSE]
    /\ cpu' = "idle"
    /\ UNCHANGED <<clock, dbVars, enabled, dedupVars, monitor_task, idx, now, stale_sensors,
                   latest_readings, wake, alert_sent, msg, cancel_req, callPc, call_task>>

\* ===================================================== service "responder"
\* Monitor of src/telegram_responder/state_checker.py.  Every action runs the
\* task (or the caller) from one await to the next.
NumChats == 2
AlertTexts == {"A", "B"}
interval_minutes == 5
interval_seconds == interval_minutes * 60
min_alert_interval == 240

ResponderInit ==
    /\ m_running = FALSE
    /\ m_task = "None"
    /\ m_cancel = FALSE
    /\ m_sleep_i = 0
    /\ m_alert = ""
    /\ m_chat_i = 0
    /\ m_successful_sends = 0
    /\ m_last_alert = <<>>
    /\ m_last_alert_time = <<>>
    /\ m_bot = FALSE
    /\ m_callPc = "idle"
    /\ m_call_result = "none"
    /\ m_attempts = <<>>

\* `self.last_alert_time and time.time() - self.last_alert_time < self.min_alert_interval`
RateLimited == m_last_alert_time # <<>> /\ clock - m_last_alert_time[1] < min_alert_interval

\* the sleep loop of run_periodic_checks begins: first `await asyncio.sleep(1)`
BeginSleepLoop ==
    IF interval_seconds = 0
    THEN /\ m_task' = IF m_running THEN "http" ELSE "done"
         /\ m_sleep_i' = 0
    ELSE IF ~m_running
         THEN /\ m_task' = "done"
              /\ m_sleep_i' = 0
         ELSE /\ m_task' = "sleep"
              /\ m_sleep_i' = 1

\* start_async
MStartAsync ==
    /\ m_callPc = "idle"
    /\ IF m_task \notin {"None", "done"}
       THEN /\ m_call_result' = "start_noop"
            /\ UNCHANGED <<m_task, m_cancel, m_sleep_i, m_alert, m_chat_i, m_successful_sends>>
       ELSE /\ m_task' = "new"
            /\ m_cancel' = FALSE
            /\ m_sleep_i' = 0
            /\ m_alert' = ""
            /\ m_chat_i' = 0
            /\ m_successful_sends' = 0
            /\ m_call_result' = "started"
    /\ UNCHANGED <<m_running, m_last_alert, m_last_alert_time, m_bot, m_callPc,
                   m_attempts>>

\* stop_async up to `await self.task`
MStopAsync ==
    /\ m_callPc = "idle"
    /\ m_running' = FALSE
    /\ IF m_task \notin {"None", "done"}
       THEN /\ m_cancel' = TRUE
            /\ m_callPc' = "stop_wait"
            /\ m_call_result' = "none"
       ELSE /\ m_call_result' = "stopped"
            /\ UNCHANGED <<m_cancel, m_callPc>>
    /\ UNCHANGED <<m_task, m_sleep_i, m_alert, m_chat_i, m_successful_sends, m_last_alert,
                   m_last_alert_time, m_bot, m_attempts>>

\* stop_async: the awaited task is done; bot cleanup; return
MStopResume ==
    /\ m_callPc = "stop_wait"
    /\ m_task = "done"
    /\ m_callPc' = "idle"
    /\ m_call_result' = "stopped"
    /\ UNCHANGED <<m_running, m_task, m_cancel, m_sleep_i, m_alert, m_chat_i,
                   m_successful_sends, m_last_alert, m_last_alert_time, m_bot, m_attempts>>

\* run_periodic_checks from its start to the request of check_constraints
MTaskStart ==
    /\ m_task = "new" /\ ~m_cancel
    /\ m_running' = TRUE
    /\ m_task' = "http"
    /\ UNCHANGED <<m_cancel, m_sleep_i, m_alert, m_chat_i, m_successful_sends, m_last_alert,
                   m_last_alert_time, m_bot, m_callPc, m_call_result, m_attempts>>

\* check_constraints: the request ended (resp = "fail": timeout, error or a
\* status other than 200); _send_alert up to its first send
MHttpDone(resp) ==
    /\ m_task = "http" /\ ~m_cancel
    /\ IF resp \in AlertTexts /\ ~RateLimited
       THEN /\ m_bot' = TRUE
            /\ IF NumChats = 0
               THEN /\ BeginSleepLoop
                    /\ UNCHANGED <<m_alert, m_chat_i, m_successful_sends>>
               ELSE /\ m_task' = "send"
                    /\ m_alert' = resp
                    /\ m_chat_i' = 1
                    /\ m_successful_sends' = 0
                    /\ UNCHANGED m_sleep_i
            /\ m_attempts' = <<>>
       ELSE /\ BeginSleepLoop
            /\ UNCHANGED <<m_bot, m_alert, m_chat_i, m_successful_sends, m_attempts>>
    /\ UNCHANGED <<m_running, m_cancel, m_last_alert, m_last_alert_time, m_callPc,
                   m_call_result>>

\* variant: the first failed send ends the batch
MSendDoneAbort(ok) ==
    /\ m_task = "send" /\ ~m_cancel
    /\ m_attempts' = Append(m_attempts, [chat |-> m_chat_i, ok |-> ok])
    /\ LET n == m_successful_sends + (IF ok THEN 1 ELSE 0) IN
       IF m_chat_i < NumChats /\ ok
       THEN /\ m_chat_i' = m_chat_i + 1
            /\ m_successful_sends' = n
            /\ UNCHANGED <<m_task, m_sleep_i, m_alert, m_last_alert, m_last_alert_time>>
       ELSE /\ IF n > 0
               THEN /\ m_last_alert' = <<m_alert>>
                    /\ m_last_alert_time' = <<clock>>
               ELSE UNCHANGED <<m_last_alert, m_last_alert_time>>
            /\ m_alert' = ""
            /\ m_chat_i' = 0
            /\ m_successful_sends' = 0
            /\ BeginSleepLoop
    /\ UNCHANGED <<m_running, m_cancel, m_bot, m_callPc, m_call_result>>

\* variant: the cooldown starts whatever the sends returned
MSendDoneAlwaysRecord(ok) ==
    /\ m_task = "send" /\ ~m_cancel
    /\ m_attempts' = Append(m_attempts, [chat |-> m_chat_i, ok |-> ok])
    /\ LET n == m_successful_sends + (IF ok THEN 1 ELSE 0) IN
       IF m_chat_i < NumChats
       THEN /\ m_chat_i' = m_chat_i + 1
            /\ m_successful_sends' = n
            /\ UNCHANGED <<m_task, m_sleep_i, m_alert, m_last_alert, m_last_alert_time>>
       ELSE /\ m_last_alert' = <<m_alert>>
            /\ m_last_alert_time' = <<clock>>
            /\ m_alert' = ""
            /\ m_chat_i' = 0
            /\ m_successful_sends' = 0
            /\ BeginSleepLoop
    /\ UNCHANGED <<m_running, m_cancel, m_bot, m_callPc, m_call_result>>

\* _send_alert: `await self.bot.send_message` returned (ok) or raised
MSendDone(ok) ==
    /\ m_task = "send" /\ ~m_cancel
    /\ m_attempts' = Append(m_attempts, [chat |-> m_chat_i, ok |-> ok])
    /\ LET n == m_successful_sends + (IF ok THEN 1 ELSE 0) IN
       IF m_chat_i < NumChats
       THEN /\ m_chat_i' = m_chat_i + 1
            /\ m_successful_sends' = n
            /\ UNCHANGED <<m_task, m_sleep_i, m_alert, m_last_alert, m_last_alert_time>>
       ELSE /\ IF n > 0
               THEN /\ m_last_alert' = <<m_alert>>
                    /\ m_last_alert_time' = <<clock>>
               ELSE UNCHANGED <<m_last_alert, m_last_alert_time>>
            /\ m_alert' = ""
            /\ m_chat_i' = 0
            /\ m_successful_sends' = 0
            /\ BeginSleepLoop
    /\ UNCHANGED <<m_running, m_cancel, m_bot, m_callPc, m_call_result>>

\* `await asyncio.sleep(1)` returned: next iteration of the sleep loop
MSleepStep ==
    /\ m_task = "sleep" /\ ~m_cancel
    /\ IF m_sleep_i < interval_seconds
       THEN IF ~m_running
            THEN m_task' = "done" /\ m_sleep_i' = 0
            ELSE m_sleep_i' = m_sleep_i + 1 /\ UNCHANGED m_task
       ELSE /\ m_task' = IF m_running THEN "http" ELSE "done"
            /\ m_sleep_i' = 0
    /\ UNCHANGED <<m_running, m_cancel, m_alert, m_chat_i, m_successful_sends, m_last_alert,
                   m_last_alert_time, m_bot, m_callPc, m_call_result, m_attempts>>

\* CancelledError at the current await: `except asyncio.CancelledError: break`
MCancelled ==
    /\ m_task \in {"new", "http", "send", "sleep"} /\ m_cancel
    /\ m_task' = "done"
    /\ m_sleep_i' = 0
    /\ m_alert' = ""
    /\ m_chat_i' = 0
    /\ m_successful_sends' = 0
    /\ UNCHANGED <<m_running, m_cancel, m_last_alert, m_last_alert_time, m_bot, m_callPc,
                   m_call_result, m_attempts>>

ResponderNext ==
    \/ MStartAsync
    \/ MStopAsync
    \/ MStopResume
    \/ MTaskStart
    \/ \E resp \in {"fail", ""} \cup AlertTexts : MHttpDone(resp)
    \/ \E ok \in BOOLEAN : MSendDone(ok)
    \/ MSleepStep
    \/ MCancelled

\* ========================================================= severity rule
MaxHumidity == 1000
ThresholdPairs == {<<700, 300>>, <<800, 200>>, <<600, 400>>}

LevelInit ==
    /\ lv_humidity \in 0 .. MaxHumidity
    /\ \E p \in ThresholdPairs : lv_high = p[1] /\ lv_low = p[2]
    /\ lv_out = <<>>

\* the body of the loop of _check_humidity_levels for one reading
Classify ==
    /\ lv_out = <<>>
    /\ lv_out' = <<HumidityAlert(lv_humidity, lv_high, lv_low)>>
    /\ UNCHANGED <<lv_humidity, lv_high, lv_low>>

\* ================================================================ Spec
ApiNext ==
    \/ \E s \in Sensors, h \in HumValues : Ingest(s, h)
    \/ \E t \in Tasks : TaskStart(t)
    \/ \E t \in Tasks : SleepDone(t)
    \/ \E t \in Tasks : Cancelled(t)
    \/ \E t \in Tasks, db_ok \in BOOLEAN : ConnQuery(t, db_ok)
    \/ \E t \in Tasks : ConnEval(t)
    \/ \E t \in Tasks, ok \in BOOLEAN : ConnSendDone(t, ok)
    \/ \E t \in Tasks, db_ok \in BOOLEAN : HumQuery(t, db_ok)
    \/ \E t \in Tasks : HumEval(t)
    \/ \E t \in Tasks, ok \in BOOLEAN : HumSendDone(t, ok)
    \/ \E t \in Tasks : Handler(t)
    \/ \E t \in Tasks, ok \in BOOLEAN : ErrSendDone(t, ok)
    \/ NoCallInProgress /\ StartCall(Lifespan)
    \/ \E ok \in BOOLEAN : StartSendDone(Lifespan, ok)
    \/ NoCallInProgress /\ StopCall(Lifespan)
    \/ StopResume(Lifespan)

IdleApi == ApiInit({}) /\ enabled
IdleResponder == ResponderInit
IdleLevel == lv_humidity = 0 /\ lv_high = 0 /\ lv_low = 0 /\ lv_out = <<>>
IdleDisplay ==
    /\ ga_sensor = <<>> /\ ga_humidity = 0 /\ ga_out = <<>>
    /\ ck_rows = <<>> /\ ck_out = <<>>
IdleTemplates == tp_templates = <<>> /\ tp_log = <<>> /\ tp_out = <<>>
IdleLatest ==
    /\ lt_rows = <<>> /\ lt_qlen = 0 /\ lt_snapshot = <<>> /\ lt_i = 0 /\ lt_seen = <<>>
IdleEngine ==
    /\ eg_pc = "idle" /\ eg_elapsed = 0 /\ eg_attempt = 0 /\ eg_tries = 0
    /\ eg_slept = 0 /\ eg_result = "none" /\ eg_module = "none"
IdleInitDb ==
    /\ id_pc = "idle" /\ id_max_retries = 0 /\ id_retry_delay = 0 /\ id_attempt = 0
    /\ id_engine = <<>> /\ id_SessionLocal = <<>> /\ id_slept = 0 /\ id_log = <<>>
    /\ id_result = "none"
IdleRate == m_delivered = <<>>
IdleIngest == cm_last = <<>>
IdleChat == ch_user_data = <<>> /\ ch_offered = {} /\ ch_last = <<>>
IdleApp ==
    /\ ap_pc = "idle" /\ ap_event = FALSE /\ ap_monitor = FALSE /\ ap_bot = FALSE
    /\ ap_monitor_task = "None" /\ ap_bot_task = "None" /\ ap_cancel = {}
    /\ ap_bot_running = FALSE /\ ap_failed = FALSE /\ ap_log = <<>>
IdleLate == IdleRate /\ IdleIngest /\ IdleChat /\ IdleApp
IdleMore == IdleLatest /\ IdleEngine /\ IdleInitDb /\ IdleLate
IdleExt == IdleDisplay /\ IdleTemplates /\ IdleMore

\* one service, from the state after construction
Init ==
    /\ clock = 0
    /\ \/ service = "api" /\ ApiInit({1}) /\ IdleResponder
       \/ service = "responder" /\ IdleApi /\ ResponderInit
    /\ IdleLevel
    /\ IdleExt

Next ==
    \/ /\ \E t \in Instants : Tick(t)
       /\ UNCHANGED <<service, responderVars, levelVars, extVars>>
    \/ /\ service = "api"
       /\ ApiNext
       /\ UNCHANGED <<service, responderVars, levelVars, extVars>>
    \/ /\ service = "responder"
       /\ ResponderNext
       /\ UNCHANGED <<service, clock, apiVars, levelVars, extVars>>

Spec == Init /\ [][Next]_vars

\* the steps of one _monitoring_loop task
TaskNext(t) ==
    /\ \/ TaskStart(t)
       \/ SleepDone(t)
       \/ Cancelled(t)
       \/ \E db_ok \in BOOLEAN : ConnQuery(t, db_ok)
       \/ ConnEval(t)
       \/ \E ok \in BOOLEAN : ConnSendDone(t, ok)
       \/ \E db_ok \in BOOLEAN : HumQuery(t, db_ok)
       \/ HumEval(t)
       \/ \E ok \in BOOLEAN : HumSendDone(t, ok)
       \/ Handler(t)
       \/ \E ok \in BOOLEAN : ErrSendDone(t, ok)
    /\ UNCHANGED <<service, responderVars, levelVars, extVars>>

\* the event loop runs every task that can run; a send of the notifier returns
SpecLive == Spec /\ \A t \in Tasks : WF_vars(TaskNext(t))

\* the steps of one check-now request
RequestNext(r) ==
    \/ CheckNowCall(r)
    \/ \E db_ok \in BOOLEAN : ConnQuery(r, db_ok)
    \/ ConnEval(r)
    \/ \E ok \in BOOLEAN : ConnSendDone(r, ok)
    \/ \E db_ok \in BOOLEAN : HumQuery(r, db_ok)
    \/ HumEval(r)
    \/ \E ok \in BOOLEAN : HumSendDone(r, ok)
    \/ CheckNowFails(r)
    \/ CheckNowReturns(r)

\* the api service with the scheduled loop and check-now requests
NextManual ==
    \/ /\ \E t \in Instants : Tick(t)
       /\ UNCHANGED <<service, responderVars, levelVars, extVars>>
    \/ /\ ApiNext
       /\ UNCHANGED <<service, responderVars, levelVars, extVars>>
    \/ /\ \E r \in Requests : RequestNext(r)
       /\ UNCHANGED <<service, responderVars, levelVars, extVars>>

InitManual ==
    /\ clock = 0
    /\ service = "api" /\ ApiInit({1}) /\ IdleResponder
    /\ IdleLevel
    /\ IdleExt

SpecManual == InitManual /\ [][NextManual]_vars

\* the api service with its store written by ingestion and rename while the
\* scheduled loop and check-now requests run; no database failure, no stop()
StoreHumValues == {80, 500}
NextStore ==
    \/ /\ \E t \in Instants : Tick(t)
       /\ UNCHANGED <<service, responderVars, levelVars, extVars>>
    \/ /\ \/ \E s \in Sensors, h \in StoreHumValues : Ingest(s, h)
          \/ \E s \in Sensors, n \in NewNames : Rename(s, n)
          \/ \E t \in Tasks : TaskStart(t)
          \/ \E t \in Tasks : SleepDone(t)
          \/ \E t \in Execs : ConnQuery(t, TRUE)
          \/ \E t \in Execs : ConnEval(t)
          \/ \E t \in Execs, ok \in BOOLEAN : ConnSendDone(t, ok)
          \/ \E t \in Execs : HumQuery(t, TRUE)
          \/ \E t \in Execs : HumEval(t)
          \/ \E t \in Execs, ok \in BOOLEAN : HumSendDone(t, ok)
          \/ \E r \in Requests : CheckNowCall(r)
          \/ \E r \in Requests : CheckNowReturns(r)
          \/ NoCallInProgress /\ StartCall(Lifespan)
          \/ \E ok \in BOOLEAN : StartSendDone(Lifespan, ok)
       /\ UNCHANGED <<service, responderVars, levelVars, extVars>>

InitStore ==
    /\ clock = 0
    /\ service = "api" /\ ApiInit({1}) /\ enabled /\ IdleResponder
    /\ IdleLevel
    /\ IdleExt

SpecStore == InitStore /\ [][NextStore]_vars

\* the api service with start() and stop() called concurrently by two callers;
\* no database failure, no measurement arrives
ApiNextRace ==
    \/ \E t \in Tasks : TaskStart(t)
    \/ \E t \in Tasks : SleepDone(t)
    \/ \E t \in Tasks : Cancelled(t)
    \/ \E t \in Tasks : ConnQuery(t, TRUE)
    \/ \E t \in Tasks : ConnEval(t)
    \/ \E t \in Tasks, ok \in BOOLEAN : ConnSendDone(t, ok)
    \/ \E t \in Tasks : HumQuery(t, TRUE)
    \/ \E t \in Tasks : HumEval(t)
    \/ \E c \in Callers : StartCall(c)
    \/ \E c \in Callers, ok \in BOOLEAN : StartSendDone(c, ok)
    \/ \E c \in Callers : StopCall(c)
    \/ \E c \in Callers : StopResume(c)

NextRace ==
    \/ /\ \E t \in Instants : Tick(t)
       /\ UNCHANGED <<service, responderVars, levelVars, extVars>>
    \/ /\ ApiNextRace
       /\ UNCHANGED <<service, responderVars, levelVars, extVars>>

InitRace ==
    /\ clock = 0
    /\ service = "api" /\ ApiInit({1}) /\ enabled /\ IdleResponder
    /\ IdleLevel
    /\ IdleExt

SpecRace == InitRace /\ [][NextRace]_vars

\* the api service at the instants around the connection threshold
StaleInstants == {0, 70, 90, 95}

NextStale ==
    \/ /\ \E t \in StaleInstants : Tick(t)
       /\ UNCHANGED <<service, responderVars, levelVars, extVars>>
    \/ /\ ApiNext
       /\ UNCHANGED <<service, responderVars, levelVars, extVars>>

InitStale ==
    /\ clock = 0
    /\ service = "api" /\ ApiInit({1}) /\ IdleResponder
    /\ IdleLevel
    /\ IdleExt

SpecStale == InitStale /\ [][NextStale]_vars

\* the api service with two sensors, no database failure and no stop()
TwoHumValues == {80, 500}
ApiNextTwo ==
    \/ \E s \in Sensors, h \in TwoHumValues : Ingest(s, h)
    \/ \E t \in Tasks : TaskStart(t)
    \/ \E t \in Tasks : SleepDone(t)
    \/ \E t \in Tasks : ConnQuery(t, TRUE)
    \/ \E t \in Tasks : ConnEval(t)
    \/ \E t \in Tasks, ok \in BOOLEAN : ConnSendDone(t, ok)
    \/ \E t \in Tasks : HumQuery(t, TRUE)
    \/ \E t \in Tasks : HumEval(t)
    \/ \E t \in Tasks, ok \in BOOLEAN : HumSendDone(t, ok)
    \/ NoCallInProgress /\ StartCall(Lifespan)
    \/ \E ok \in BOOLEAN : StartSendDone(Lifespan, ok)

InitTwo ==
    /\ clock = 0
    /\ service = "api" /\ ApiInit(Sensors) /\ enabled /\ IdleResponder
    /\ IdleLevel
    /\ IdleExt

NextTwo ==
    \/ /\ \E t \in Instants : Tick(t)
       /\ UNCHANGED <<service, responderVars, levelVars, extVars>>
    \/ /\ ApiNextTwo
       /\ UNCHANGED <<service, responderVars, levelVars, extVars>>

SpecTwo == InitTwo /\ [][NextTwo]_vars

\* the severity rule applied to every reading and threshold pair
InitLevel ==
    /\ clock = 0
    /\ service = "level" /\ IdleApi /\ IdleResponder
    /\ LevelInit
    /\ IdleExt

NextLevel == Classify /\ UNCHANGED <<service, clock, apiVars, responderVars, extVars>>

SpecLevel == InitLevel /\ [][NextLevel]_vars

\* ============================================== display classification
\* get_alert_text and check_humidity of src/api/API.py.  The levels of a sensor
\* are whole percents (Integer columns); humidity is in tenths of a percent.
MaxLevel == 3
LevelValues == 1 .. MaxLevel
HalfSteps == {5 * k : k \in 0 .. (2 * MaxLevel + 2)}
SensorRows == [overflow_level : LevelValues, alert_level : LevelValues,
               warning_level : LevelValues, critical_level : LevelValues]

\* variant: an if/elif chain, the first matching test decides
IconOfFirstMatch(h, sensor) ==
    IF h > 10 * sensor.overflow_level THEN "above_overflow"
    ELSE IF h < 10 * sensor.alert_level THEN "below_alert"
    ELSE IF h < 10 * sensor.warning_level THEN "below_warning"
    ELSE IF h < 10 * sensor.critical_level THEN "below_critical"
    ELSE "ok"

\* get_alert_text: four `if` statements in a row, each overwriting icon
IconOf(h, sensor) ==
    LET i0 == "ok"
        i1 == IF h > 10 * sensor.overflow_level THEN "above_overflow" ELSE i0
        i2 == IF h < 10 * sensor.alert_level THEN "below_alert" ELSE i1
        i3 == IF h < 10 * sensor.warning_level THEN "below_warning" ELSE i2
        i4 == IF h < 10 * sensor.critical_level THEN "below_critical" ELSE i3
    IN  i4

IconInit ==
    /\ ga_sensor \in SensorRows
    /\ ga_humidity \in HalfSteps
    /\ ga_out = <<>>

\* get_alert_text(sensor, measurement): the icon of the returned line
GetAlertText ==
    /\ ga_out = <<>>
    /\ ga_out' = <<IconOf(ga_humidity, ga_sensor)>>
    /\ UNCHANGED <<ga_sensor, ga_humidity>>

InitIcon ==
    /\ clock = 0
    /\ service = "icon" /\ IdleApi /\ IdleResponder /\ IdleLevel
    /\ IconInit
    /\ ck_rows = <<>> /\ ck_out = <<>>
    /\ IdleTemplates /\ IdleMore

NextIcon ==
    /\ GetAlertText
    /\ UNCHANGED <<service, clock, apiVars, responderVars, levelVars, ck_rows, ck_out,
                   templateVars, moreVars>>

SpecIcon == InitIcon /\ [][NextIcon]_vars

\* ------------------------------------------------------- check_humidity
\* rows of humidity_sensors, each with its measurements, oldest first
CheckValues == {5, 20, 10 * MaxLevel + 5}
MeasurementLists == {<<>>} \cup {<<a>> : a \in CheckValues}
                    \cup {<<a, b>> : a \in CheckValues, b \in CheckValues}
CheckRows == [overflow_level : LevelValues, alert_level : LevelValues,
              warning_level : {1}, critical_level : {1},
              measurements : MeasurementLists]
CheckTables == {<<>>} \cup {<<a>> : a \in CheckRows}
               \cup {<<a, b>> : a \in CheckRows, b \in CheckRows}

\* variant: the oldest measurement of the sensor instead of the latest
LatestOfOldest(row) == IF row.measurements = <<>> THEN <<>> ELSE <<Head(row.measurements)>>

\* `.order_by(HumidityMeasurement.date.desc()).first()`: <<>> for None
LatestOf(row) ==
    IF row.measurements = <<>> THEN <<>>
    ELSE <<row.measurements[Len(row.measurements)]>>

\* the condition of the `if` in the loop of check_humidity
AlertWorthy(row) ==
    /\ LatestOf(row) # <<>>
    /\ \/ LatestOf(row)[1] > 10 * row.overflow_level
       \/ LatestOf(row)[1] < 10 * row.alert_level

\* the loop `for sensor in sensors` from row i on: the lines added to res
RECURSIVE CheckLines(_, _)
CheckLines(rows, i) ==
    IF i > Len(rows) THEN <<>>
    ELSE (IF AlertWorthy(rows[i])
          THEN <<[id |-> i, humidity |-> LatestOf(rows[i])[1],
                  icon |-> IconOf(LatestOf(rows[i])[1], rows[i])]>>
          ELSE <<>>) \o CheckLines(rows, i + 1)

CheckInit ==
    /\ ck_rows \in CheckTables
    /\ ck_out = <<>>

\* GET /humidity/check
CheckHumidity ==
    /\ ck_out = <<>>
    /\ ck_out' = IF ck_rows = <<>>
                 THEN <<[status |-> 404, lines |-> <<>>]>>
                 ELSE <<[status |-> 200, lines |-> CheckLines(ck_rows, 1)]>>
    /\ UNCHANGED ck_rows

InitCheck ==
    /\ clock = 0
    /\ service = "check" /\ IdleApi /\ IdleResponder /\ IdleLevel
    /\ ga_sensor = <<>> /\ ga_humidity = 0 /\ ga_out = <<>>
    /\ CheckInit
    /\ IdleTemplates /\ IdleMore

NextCheck ==
    /\ CheckHumidity
    /\ UNCHANGED <<service, clock, apiVars, responderVars, levelVars, ga_sensor,
                   ga_humidity, ga_out, templateVars, moreVars>>

SpecCheck == InitCheck /\ [][NextCheck]_vars

\* ------------------------------------------------ notifier templates
\* A template is its literal text and the placeholders it names, in order.
\* the four entries of _templates after __init__
BuiltinTemplates ==
    [humidity_alert |-> [text |-> "HUMIDITY ALERT",
                         fields |-> <<"level", "sensor_name", "humidity", "threshold",
                                      "timestamp">>],
     connection_alert |-> [text |-> "CONNECTION ALERT",
                           fields |-> <<"level", "sensor_name", "last_connection",
                                        "threshold">>],
     system_alert |-> [text |-> "SYSTEM ALERT", fields |-> <<"level", "title", "message">>],
     custom |-> [text |-> "", fields |-> <<"level", "message">>]]

\* the add_template calls that can be made
MaxAdds == 3
AddNames == {"custom", "report"}
AddedTemplates ==
    {[text |-> "REPORT", fields |-> <<"level", "message">>],
     [text |-> "NOTE", fields |-> <<"message", "room">>]}

\* the send_with_template_async calls that can be made
SendNames == {"custom", "report", "system_alert", "missing"}
AlertLevels == {"INFO", "CRITICAL"}
SendKwargs ==
    {[message |-> "m"], [message |-> "m", room |-> "r"],
     [title |-> "t", message |-> "m"]}

\* AlertLevel.value
LevelValue(level) == IF level = "INFO" THEN "(i)" ELSE "(!)"

\* `kwargs["level"] = level.value`
WithLevel(kwargs, level) ==
    [k \in DOMAIN kwargs \cup {"level"} |->
        IF k = "level" THEN LevelValue(level) ELSE kwargs[k]]

\* str.format raises KeyError for a placeholder that is not among the keywords
Formattable(template, kwargs) ==
    \A i \in DOMAIN template.fields : template.fields[i] \in DOMAIN kwargs

\* str.format(**kwargs): the text with each placeholder replaced by its value
Format(template, kwargs) ==
    [text |-> template.text,
     values |-> [i \in DOMAIN template.fields |-> kwargs[template.fields[i]]]]

TemplatesInit ==
    /\ tp_templates = BuiltinTemplates
    /\ tp_log = <<>>
    /\ tp_out = <<>>

\* variant: a name that has a template keeps it
AddTemplateKeepFirst(name, template) ==
    /\ Len(tp_log) < MaxAdds
    /\ tp_templates' = IF name \in DOMAIN tp_templates THEN tp_templates
                       ELSE [n \in DOMAIN tp_templates \cup {name} |->
                               IF n = name THEN template ELSE tp_templates[n]]
    /\ tp_log' = Append(tp_log, [name |-> name, template |-> template])
    /\ UNCHANGED tp_out

\* `self._templates[name] = template`
AddTemplate(name, template) ==
    /\ Len(tp_log) < MaxAdds
    /\ tp_templates' = [n \in DOMAIN tp_templates \cup {name} |->
                          IF n = name THEN template ELSE tp_templates[n]]
    /\ tp_log' = Append(tp_log, [name |-> name, template |-> template])
    /\ UNCHANGED tp_out

\* send_with_template_async; ok is what _send_message_async returns
SendWithTemplate(name, level, kwargs, ok) ==
    /\ tp_out' =
         IF name \notin DOMAIN tp_templates
         THEN [name |-> name, level |-> level, kwargs |-> kwargs,
               outcome |-> "KeyError", sent |-> <<>>]
         ELSE IF ~Formattable(tp_templates[name], WithLevel(kwargs, level))
         THEN [name |-> name, level |-> level, kwargs |-> kwargs,
               outcome |-> "KeyError", sent |-> <<>>]
         ELSE [name |-> name, level |-> level, kwargs |-> kwargs,
               outcome |-> IF ok THEN "True" ELSE "False",
               sent |-> <<Format(tp_templates[name], WithLevel(kwargs, level))>>]
    /\ UNCHANGED <<tp_templates, tp_log>>

InitTemplates ==
    /\ clock = 0
    /\ service = "templates" /\ IdleApi /\ IdleResponder /\ IdleLevel
    /\ IdleDisplay /\ IdleMore
    /\ TemplatesInit

NextTemplates ==
    \/ /\ \E name \in AddNames, template \in AddedTemplates : AddTemplate(name, template)
       /\ UNCHANGED <<service, clock, apiVars, responderVars, levelVars, displayVars,
                      moreVars>>
    \/ /\ \E name \in SendNames, level \in AlertLevels, kwargs \in SendKwargs,
             ok \in BOOLEAN : SendWithTemplate(name, level, kwargs, ok)
       /\ UNCHANGED <<service, clock, apiVars, responderVars, levelVars, displayVars,
                      moreVars>>

SpecTemplates == InitTemplates /\ [][NextTemplates]_vars

\* ------------------------------------------- latest measurement query
\* _get_latest_measurements over a table of measurements that grows while the
\* threshold pass runs.  A measurement's id is its position in lt_rows.
MaxRows == 3
LatestHumValues == {80, 500}

\* the ids of the measurements of sensor s among rows
IdsOf(rows, s) == {i \in DOMAIN rows : rows[i].sensor_id = s}

\* variant: the subquery takes the smallest id of the group
LatestIdOldest(rows, s) == CHOOSE i \in IdsOf(rows, s) : \A j \in IdsOf(rows, s) : i <= j

\* `func.max(HumidityMeasurement.id)` of the group of sensor s
LatestId(rows, s) == CHOOSE i \in IdsOf(rows, s) : \A j \in IdsOf(rows, s) : j <= i

\* the subquery: one row (sensor_id, latest_id) per sensor that has measurements
LatestSubquery(rows) ==
    {[sensor_id |-> s, latest_id |-> LatestId(rows, s)] :
        s \in {x \in Sensors : IdsOf(rows, x) # {}}}

\* the two outer joins, for the row of sensor s: None (<<>>) where nothing joins
JoinedRow(rows, s) ==
    LET q == {r \in LatestSubquery(rows) : r.sensor_id = s}
        m == {i \in DOMAIN rows :
                 \E r \in q : i = r.latest_id /\ rows[i].sensor_id = s}
    IN  IF m = {} THEN [sensor_id |-> s, humidity |-> <<>>, date |-> <<>>]
        ELSE LET i == CHOOSE x \in m : TRUE
             IN  [sensor_id |-> s, humidity |-> <<rows[i].humidity>>,
                  date |-> <<rows[i].date>>]

RECURSIVE JoinedRows(_, _)
JoinedRows(rows, ids) ==
    IF ids = <<>> THEN <<>>
    ELSE <<JoinedRow(rows, Head(ids))>> \o JoinedRows(rows, Tail(ids))

\* `.all()`: one result row per sensor
LatestMeasurements(rows) == JoinedRows(rows, SortedSeq(Sensors))

LatestInit ==
    /\ lt_rows = <<>> /\ lt_qlen = 0 /\ lt_snapshot = <<>> /\ lt_i = 0 /\ lt_seen = <<>>

\* create_measurement: the row gets the next id and the current time as date
InsertMeasurement(s, h) ==
    /\ Len(lt_rows) < MaxRows
    /\ lt_rows' = Append(lt_rows, [sensor_id |-> s, humidity |-> h, date |-> clock])
    /\ UNCHANGED <<lt_qlen, lt_snapshot, lt_i, lt_seen>>

\* `latest_readings = self._get_latest_measurements(db)`
LatestPassQuery ==
    /\ lt_i = 0
    /\ lt_snapshot' = LatestMeasurements(lt_rows)
    /\ lt_qlen' = Len(lt_rows)
    /\ lt_i' = 1
    /\ lt_seen' = <<>>
    /\ UNCHANGED lt_rows

\* one iteration of the for loop: `if humidity is None: continue`, else evaluate
LatestPassEvaluate ==
    /\ lt_i >= 1 /\ lt_i <= Len(lt_snapshot)
    /\ lt_seen' = IF lt_snapshot[lt_i].humidity = <<>> THEN lt_seen
                  ELSE Append(lt_seen, [sensor_id |-> lt_snapshot[lt_i].sensor_id,
                                        humidity |-> lt_snapshot[lt_i].humidity[1],
                                        date |-> lt_snapshot[lt_i].date[1]])
    /\ lt_i' = lt_i + 1
    /\ UNCHANGED <<lt_rows, lt_qlen, lt_snapshot>>

\* the for loop is over
LatestPassEnds ==
    /\ lt_i > Len(lt_snapshot)
    /\ lt_i' = 0
    /\ lt_snapshot' = <<>>
    /\ UNCHANGED <<lt_rows, lt_qlen, lt_seen>>

InitLatest ==
    /\ clock = 0
    /\ service = "latest" /\ IdleApi /\ IdleResponder /\ IdleLevel
    /\ IdleDisplay /\ IdleTemplates /\ IdleEngine /\ IdleInitDb /\ IdleLate
    /\ LatestInit

NextLatest ==
    \/ /\ \E t \in Instants : Tick(t)
       /\ UNCHANGED <<service, responderVars, levelVars, extVars>>
    \/ /\ \E s \in Sensors, h \in LatestHumValues : InsertMeasurement(s, h)
       /\ UNCHANGED <<service, clock, apiVars, responderVars, levelVars, displayVars,
                      templateVars, engineVars, initDbVars, lateVars>>
    \/ /\ LatestPassQuery
       /\ UNCHANGED <<service, clock, apiVars, responderVars, levelVars, displayVars,
                      templateVars, engineVars, initDbVars, lateVars>>
    \/ /\ LatestPassEvaluate
       /\ UNCHANGED <<service, clock, apiVars, responderVars, levelVars, displayVars,
                      templateVars, engineVars, initDbVars, lateVars>>
    \/ /\ LatestPassEnds
       /\ UNCHANGED <<service, clock, apiVars, responderVars, levelVars, displayVars,
                      templateVars, engineVars, initDbVars, lateVars>>

SpecLatest == InitLatest /\ [][NextLatest]_vars

\* ------------------------------------------ engine creation, session.py
\* times of this section are in seconds
host_timeout == 60
host_retry_sleep == 2
socket_timeout == 2
engine_max_retries == 10
engine_retry_delay == 3

EngineInit ==
    /\ eg_pc = "host_wait" /\ eg_elapsed = 0 /\ eg_attempt = 0 /\ eg_tries = 0
    /\ eg_slept = 0 /\ eg_result = "none" /\ eg_module = "loading"

\* one iteration of the while loop of wait_for_db_host: the probe takes up to
\* the socket timeout; reachable returns True, anything else sleeps 2 seconds
HostProbe(reachable, took) ==
    /\ eg_pc = "host_wait" /\ eg_elapsed < host_timeout
    /\ IF reachable
       THEN eg_pc' = "attempt" /\ eg_elapsed' = eg_elapsed + took
       ELSE eg_pc' = "host_wait" /\ eg_elapsed' = eg_elapsed + took + host_retry_sleep
    /\ UNCHANGED <<eg_attempt, eg_tries, eg_slept, eg_result, eg_module>>

\* the while condition fails: `raise Exception(... not reachable ...)`
HostTimeout ==
    /\ eg_pc = "host_wait" /\ eg_elapsed >= host_timeout
    /\ eg_pc' = "raised" /\ eg_result' = "raise"
    /\ UNCHANGED <<eg_elapsed, eg_attempt, eg_tries, eg_slept, eg_module>>

\* the body of `for attempt in range(max_retries)`: create the engine and test
\* it; both except clauses sleep and then `return None` when attempts are left
ConnectAttempt(outcome) ==
    /\ eg_pc = "attempt" /\ eg_attempt < engine_max_retries
    /\ eg_tries' = eg_tries + 1
    /\ IF outcome = "ok"
       THEN /\ eg_pc' = "returned" /\ eg_result' = "engine"
            /\ UNCHANGED eg_slept
       ELSE IF eg_attempt < engine_max_retries - 1
       THEN /\ eg_slept' = eg_slept + engine_retry_delay
            /\ eg_pc' = "returned" /\ eg_result' = "None"
       ELSE /\ eg_pc' = "raised" /\ eg_result' = "raise"
            /\ UNCHANGED eg_slept
    /\ UNCHANGED <<eg_elapsed, eg_attempt, eg_module>>

\* module initialisation: sessionmaker and create_all with the returned engine;
\* create_all raises without an engine, and any exception is re-raised
ModuleInitialised ==
    /\ eg_pc \in {"returned", "raised"} /\ eg_module = "loading"
    /\ eg_module' = IF eg_result = "engine" THEN "ready" ELSE "failed"
    /\ UNCHANGED <<eg_pc, eg_elapsed, eg_attempt, eg_tries, eg_slept, eg_result>>

InitEngine ==
    /\ clock = 0
    /\ service = "engine" /\ IdleApi /\ IdleResponder /\ IdleLevel
    /\ IdleDisplay /\ IdleTemplates /\ IdleLatest /\ IdleInitDb /\ IdleLate
    /\ EngineInit

NextEngine ==
    \/ /\ \E reachable \in BOOLEAN, took \in {0, socket_timeout} : HostProbe(reachable, took)
       /\ UNCHANGED <<service, clock, apiVars, responderVars, levelVars, displayVars,
                      templateVars, latestVars, initDbVars, lateVars>>
    \/ /\ HostTimeout
       /\ UNCHANGED <<service, clock, apiVars, responderVars, levelVars, displayVars,
                      templateVars, latestVars, initDbVars, lateVars>>
    \/ /\ \E outcome \in {"ok", "OperationalError", "Exception"} : ConnectAttempt(outcome)
       /\ UNCHANGED <<service, clock, apiVars, responderVars, levelVars, displayVars,
                      templateVars, latestVars, initDbVars, lateVars>>
    \/ /\ ModuleInitialised
       /\ UNCHANGED <<service, clock, apiVars, responderVars, levelVars, displayVars,
                      templateVars, latestVars, initDbVars, lateVars>>

SpecEngine == InitEngine /\ [][NextEngine]_vars

\* -------------------------------------------- init_database, database.py
MaxRetries == 4
RetryDelays == {1, 3}

\* what one attempt can run into: create_engine raises (not an
\* OperationalError), the connection test raises OperationalError or another
\* error, create_all raises OperationalError, or all of it works
AttemptOutcomes == {"engine_error", "connect_OperationalError", "connect_error",
                    "create_all_OperationalError", "ok"}

InitDbInit ==
    /\ id_pc = "loop"
    /\ id_max_retries \in 0 .. MaxRetries
    /\ id_retry_delay \in RetryDelays
    /\ id_attempt = 0
    /\ id_engine = <<>> /\ id_SessionLocal = <<>>
    /\ id_slept = 0 /\ id_log = <<>>
    /\ id_result = "none"

\* variant: the last failed attempt does not re-raise
InitAttemptNoRaise(outcome) ==
    /\ id_pc = "loop" /\ id_attempt < id_max_retries
    /\ id_log' = Append(id_log, outcome)
    /\ id_engine' = IF outcome = "engine_error" THEN id_engine ELSE <<id_attempt>>
    /\ id_SessionLocal' = IF outcome \in {"create_all_OperationalError", "ok"}
                          THEN <<id_attempt>> ELSE id_SessionLocal
    /\ IF outcome = "ok"
       THEN /\ id_pc' = "returned" /\ id_result' = "True"
            /\ UNCHANGED <<id_attempt, id_slept>>
       ELSE IF outcome \in {"engine_error", "connect_error"}
       THEN /\ id_pc' = "raised" /\ id_result' = "Exception"
            /\ UNCHANGED <<id_attempt, id_slept>>
       ELSE /\ id_slept' = IF id_attempt < id_max_retries - 1
                           THEN id_slept + id_retry_delay ELSE id_slept
            /\ id_attempt' = id_attempt + 1
            /\ UNCHANGED <<id_pc, id_result>>
    /\ UNCHANGED <<id_max_retries, id_retry_delay>>

\* the body of `for attempt in range(max_retries)`
InitAttempt(outcome) ==
    /\ id_pc = "loop" /\ id_attempt < id_max_retries
    /\ id_log' = Append(id_log, outcome)
    /\ id_engine' = IF outcome = "engine_error" THEN id_engine ELSE <<id_attempt>>
    /\ id_SessionLocal' = IF outcome \in {"create_all_OperationalError", "ok"}
                          THEN <<id_attempt>> ELSE id_SessionLocal
    /\ IF outcome = "ok"
       THEN /\ id_pc' = "returned" /\ id_result' = "True"
            /\ UNCHANGED <<id_attempt, id_slept>>
       ELSE IF outcome \in {"engine_error", "connect_error"}
       THEN /\ id_pc' = "raised" /\ id_result' = "Exception"
            /\ UNCHANGED <<id_attempt, id_slept>>
       ELSE IF id_attempt < id_max_retries - 1
       THEN /\ id_slept' = id_slept + id_retry_delay
            /\ id_attempt' = id_attempt + 1
            /\ UNCHANGED <<id_pc, id_result>>
       ELSE /\ id_pc' = "raised" /\ id_result' = "OperationalError"
            /\ UNCHANGED <<id_attempt, id_slept>>
    /\ UNCHANGED <<id_max_retries, id_retry_delay>>

\* the loop ends without a return or a raise: `return False`
InitLoopEnds ==
    /\ id_pc = "loop" /\ id_attempt >= id_max_retries
    /\ id_pc' = "returned" /\ id_result' = "False"
    /\ UNCHANGED <<id_max_retries, id_retry_delay, id_attempt, id_engine, id_SessionLocal,
                   id_slept, id_log>>

InitInitDb ==
    /\ clock = 0
    /\ service = "init_database" /\ IdleApi /\ IdleResponder /\ IdleLevel
    /\ IdleDisplay /\ IdleTemplates /\ IdleLatest /\ IdleEngine /\ IdleLate
    /\ InitDbInit

NextInitDb ==
    \/ /\ \E outcome \in AttemptOutcomes : InitAttempt(outcome)
       /\ UNCHANGED <<service, clock, apiVars, responderVars, levelVars, displayVars,
                      templateVars, latestVars, engineVars, lateVars>>
    \/ /\ InitLoopEnds
       /\ UNCHANGED <<service, clock, apiVars, responderVars, levelVars, displayVars,
                      templateVars, latestVars, engineVars, lateVars>>

\* init_database is a plain function: it keeps running until it returns or raises
SpecInitDb == InitInitDb /\ [][NextInitDb]_vars /\ WF_vars(NextInitDb)

\* ============================================================ properties
\* steps of a _monitoring_loop task, told by the positions before and after
ConnEvalAt(t) == cpu = t /\ pc[t] = "conn_eval" /\ idx[t] <= Len(stale_sensors[t])
HumEvalAt(t) ==
    /\ cpu = t /\ pc[t] = "hum_eval" /\ idx[t] <= Len(latest_readings[t])
    /\ latest_readings[t][idx[t]].humidity # <<>>
    /\ OutOfRange(latest_readings[t][idx[t]].humidity[1],
                  humidity_threshold_high, humidity_threshold_low)
ConnSensor(t) == stale_sensors[t][idx[t]]
HumSensor(t) == latest_readings[t][idx[t]].sensor_id
HumValue(t) == latest_readings[t][idx[t]].humidity[1]
ConnAttempted(t) == pc'[t] = "conn_send" /\ msg'[t].kind = "connection"
                    /\ msg'[t].sensor = ConnSensor(t)
ConnSkipped(t) == pc'[t] = "conn_eval" /\ idx'[t] = idx[t] + 1
HumAttempted(t) == pc'[t] = "hum_send" /\ msg'[t].kind = "humidity"
                   /\ msg'[t].sensor = HumSensor(t)
HumSkipped(t) == pc'[t] = "hum_eval" /\ idx'[t] = idx[t] + 1
ConnSendStep(t) == pc[t] = "conn_send" /\ pc'[t] = "conn_eval"
HumSendStep(t) == pc[t] = "hum_send" /\ pc'[t] = "hum_eval"

\* map2 is map with the entry of s set to n, every other entry as it was
OnlyEntrySet(map, map2, s, n) ==
    /\ DOMAIN map2 = DOMAIN map \cup {s}
    /\ map2[s] = n
    /\ \A x \in DOMAIN map \ {s} : map2[x] = map[x]

\* C1: a sensor's last-alert timestamp is written only by the step in which
\* the notifier's send returned True, and then only that sensor's entry of the
\* map of that pass is set (to now); a send that returned False leaves both
\* maps unchanged; no other step changes the maps; and while the latest send
\* for a (kind, sensor) returned False, every later cycle that finds the
\* condition attempts the notification again.
C1_RecordOnlyOnSuccess ==
    [][ /\ \A t \in Tasks :
            /\ ConnSendStep(t) =>
                 /\ last_humidity_alert' = last_humidity_alert
                 /\ IF alert_sent'[t]
                    THEN OnlyEntrySet(last_connection_alert, last_connection_alert',
                                      ConnSensor(t), now[t])
                    ELSE last_connection_alert' = last_connection_alert
            /\ HumSendStep(t) =>
                 /\ last_connection_alert' = last_connection_alert
                 /\ IF alert_sent'[t]
                    THEN OnlyEntrySet(last_humidity_alert, last_humidity_alert',
                                      HumSensor(t), now[t])
                    ELSE last_humidity_alert' = last_humidity_alert
            /\ (ConnEvalAt(t) /\ <<"connection", ConnSensor(t)>> \in send_failed)
                 => ConnAttempted(t)
            /\ (HumEvalAt(t) /\ <<"humidity", HumSensor(t)>> \in send_failed)
                 => HumAttempted(t)
        /\ (\A t \in Tasks : ~ConnSendStep(t) /\ ~HumSendStep(t))
             => /\ last_connection_alert' = last_connection_alert
                /\ last_humidity_alert' = last_humidity_alert
      ]_vars

\* C1 witness: after sends that returned False for both kinds nothing is
\* recorded, and the humidity notification is being attempted again
C1_Witness ==
    \E t \in Tasks :
        /\ pc[t] = "hum_send"
        /\ <<"humidity", msg[t].sensor>> \in send_failed
        /\ <<"connection", msg[t].sensor>> \in send_failed
        /\ last_humidity_alert = <<>> /\ last_connection_alert = <<>>

\* C2: a sensor without a recorded alert of the kind is notified in the first
\* cycle that finds the condition; with an alert recorded at time r no
\* notification of the kind is attempted in a cycle at a time before r + 4 h;
\* and one is attempted in a cycle at or after r + 4 h.
C2_Cooldown ==
    [][ \A t \in Tasks :
          /\ ConnEvalAt(t) =>
               LET s == ConnSensor(t) IN
               /\ s \notin DOMAIN last_connection_alert => ConnAttempted(t)
               /\ (s \in DOMAIN last_connection_alert
                   /\ now[t] < last_connection_alert[s] + 240) => ConnSkipped(t)
               /\ (s \in DOMAIN last_connection_alert
                   /\ now[t] >= last_connection_alert[s] + 240) => ConnAttempted(t)
          /\ HumEvalAt(t) =>
               LET s == HumSensor(t) IN
               /\ s \notin DOMAIN last_humidity_alert => HumAttempted(t)
               /\ (s \in DOMAIN last_humidity_alert
                   /\ clock < last_humidity_alert[s] + 240) => HumSkipped(t)
               /\ (s \in DOMAIN last_humidity_alert
                   /\ clock >= last_humidity_alert[s] + 240) => HumAttempted(t)
      ]_vars

\* C2 witness: value 8 % against the low threshold is notified again, at
\* Critical, in the cycle exactly 4 h after the recorded alert
C2_Witness ==
    \E t \in Tasks :
        /\ pc[t] = "hum_send"
        /\ msg[t].value = 80 /\ msg[t].level = "CRITICAL"
        /\ msg[t].sensor \in DOMAIN last_humidity_alert
        /\ now[t] = last_humidity_alert[msg[t].sensor] + 240

\* C3: an exception raised by a check cycle is caught by the loop: the task
\* goes to the handler, attempts the system alert 'Monitor Error' at Critical,
\* then sleeps check_interval and starts another cycle; a task ends only by
\* cancellation; a cycle that raised is always followed by the sleep, and a
\* sleep whose deadline has passed by another cycle, unless the task is
\* cancelled.
C3_CycleFailureNotFatal ==
    /\ [][ \A t \in Tasks :
            /\ (pc[t] # "done" /\ pc'[t] = "done") => cancel_req[t]
            /\ (pc[t] \in {"cycle", "hum_query"} /\ raised'[t] # "none")
                 => pc'[t] = "handler"
            /\ (pc[t] = "handler" /\ pc'[t] # "handler")
                 => /\ pc'[t] = "err_send"
                    /\ msg'[t].kind = "system:Monitor Error"
                    /\ msg'[t].level = "CRITICAL"
            /\ (pc[t] = "err_send" /\ pc'[t] # "err_send")
                 => \/ pc'[t] = "sleep" /\ wake'[t] = clock + check_interval
                    \/ cancel_req[t] /\ pc'[t] = "done"
            /\ (pc[t] = "sleep" /\ pc'[t] # "sleep")
                 => \/ pc'[t] = "cycle" /\ clock >= wake[t]
                    \/ cancel_req[t] /\ pc'[t] = "done"
         ]_vars
    /\ \A t \in Tasks :
         /\ (pc[t] = "handler") ~> (pc[t] \in {"sleep", "done", "free"})
         /\ (pc[t] = "sleep" /\ clock >= wake[t]) ~> (pc[t] \in {"cycle", "done", "free"})

\* C3 witness: a cycle starts after the cycle before it raised
C3_Witness == \E t \in Tasks : pc[t] = "cycle" /\ cpu = t /\ raised[t] # "none"

\* C4: in a cycle whose connection pass raised, the humidity pass has run by
\* the time the cycle is over and the loop sleeps.
C4_PassesIndependent ==
    \A t \in Tasks : (pc[t] = "sleep" /\ raised[t] = "connection") => hum_ran[t]

\* C5: start on a running monitor is a no-op.  HumidityMonitor.start() goes on
\* to send 'Monitoring Started' and to create a task only when _monitor_task
\* is None; a call that finds a task returns having changed nothing (task,
\* positions, pending alerts, maps).  Monitor.start_async() creates a task
\* only when it has none that is not done, and otherwise changes nothing.
C5_StartIdempotent ==
    [][ /\ \A c \in Callers :
            /\ (callPc[c] = "idle" /\ callPc'[c] = "start_send") => monitor_task = NoTask
            /\ (call_result[c] # "start_noop" /\ call_result'[c] = "start_noop")
                 => /\ monitor_task # NoTask
                    /\ UNCHANGED <<clock, dbVars, enabled, dedupVars, monitor_task, cpu,
                                   pc, localVars, cancel_req, callPc, call_task>>
        /\ \A t \in Tasks : (pc[t] # "new" /\ pc'[t] = "new") => monitor_task = NoTask
        /\ monitor_task # NoTask => monitor_task' \in {monitor_task, NoTask}
        /\ (m_task # "new" /\ m_task' = "new") => m_task \in {"None", "done"}
        /\ (m_call_result # "start_noop" /\ m_call_result' = "start_noop")
             => /\ m_task \notin {"None", "done"}
                /\ UNCHANGED <<clock, m_running, m_task, m_cancel, m_sleep_i, m_alert,
                               m_chat_i, m_successful_sends, m_last_alert,
                               m_last_alert_time, m_bot, m_callPc>>
      ]_vars

\* C5 witness: start() returned as a no-op while the loop task is alive
C5_Witness ==
    /\ call_result[Lifespan] = "start_noop"
    /\ monitor_task # NoTask
    /\ pc[monitor_task] \in {"sleep", "conn_send", "hum_send"}

\* C6: stop() on a running monitor cancels the task, returns only when the
\* task is done and leaves _monitor_task None with no task alive; stop() on a
\* stopped monitor changes nothing.  Monitor.stop_async() returns only when
\* its task is done (or there was none), with running False.
C6_StopAwaitsTask ==
    [][ /\ \A c \in Callers :
            /\ (callPc[c] = "idle" /\ callPc'[c] = "stop_wait")
                 => /\ monitor_task # NoTask
                    /\ cancel_req'[monitor_task]
            /\ (callPc[c] = "stop_wait" /\ callPc'[c] = "idle")
                 => /\ pc[call_task[c]] = "done"
                    /\ call_result'[c] = "stopped"
                    /\ monitor_task' = NoTask
                    /\ \A t \in Tasks : pc'[t] = "free"
            /\ (call_result[c] # "stop_noop" /\ call_result'[c] = "stop_noop")
                 => /\ monitor_task = NoTask
                    /\ UNCHANGED <<clock, dbVars, enabled, dedupVars, monitor_task, cpu,
                                   pc, localVars, cancel_req, callPc, call_task>>
        /\ monitor_task = NoTask => \A t \in Tasks : pc[t] = "free"
        /\ (m_callPc = "idle" /\ m_callPc' = "stop_wait")
             => m_cancel' /\ ~m_running'
        /\ (m_call_result # "stopped" /\ m_call_result' = "stopped")
             => /\ m_task \in {"None", "done"}
                /\ m_task' = m_task
                /\ ~m_running'
      ]_vars

\* C6 witness: stop() returned after it had to wait for the cancelled task
C6_Witness ==
    /\ call_result[Lifespan] = "stopped"
    /\ monitor_task = NoTask
    /\ \A t \in Tasks : pc[t] = "free" /\ ~cancel_req[t]

\* C7: once stop has cancelled a task, the task's next step ends it, whatever
\* await it is suspended at; for a sleeping task that step is possible before
\* the sleep's deadline, and no further cycle (HumidityMonitor) and no further
\* check or 1-second sleep (Monitor) begins.
C7_StopDuringSleep ==
    /\ [](\A t \in Tasks :
            (cancel_req[t] /\ pc[t] \notin {"done", "free"}) => ENABLED Cancelled(t))
    /\ []((m_cancel /\ m_task \notin {"None", "done"}) => ENABLED MCancelled)
    /\ [][ /\ \A t \in Tasks :
              (cancel_req[t] /\ pc'[t] # pc[t]) => pc'[t] \in {"done", "free"}
           /\ (~m_running /\ m_task = "sleep")
                => /\ m_task' \in {"sleep", "done"}
                   /\ m_sleep_i' <= m_sleep_i
           /\ (m_cancel /\ m_task' # m_task) => m_task' \in {"done", "new"}
         ]_vars

\* C7 witness: stop() has cancelled the task in the middle of its sleep
C7_Witness ==
    \E t \in Tasks : pc[t] = "sleep" /\ cancel_req[t] /\ clock < wake[t]

\* C8: the kinds HumidityHigh, HumidityLow and ConnectionStale have cooldowns
\* of their own per sensor: a humidity condition is notified unless the last
\* recorded humidity alert of the sensor was of the same direction, and a
\* stale connection is notified unless a connection alert of the sensor was
\* recorded less than 4 h before.
C8_KindsIndependent ==
    [][ \A t \in Tasks :
          /\ (HumEvalAt(t) /\ recorded_kind[HumSensor(t)] # HumDirection(HumValue(t)))
               => HumAttempted(t)
          /\ (ConnEvalAt(t)
              /\ (ConnSensor(t) \in DOMAIN last_connection_alert
                    => now[t] >= last_connection_alert[ConnSensor(t)] + 240))
               => ConnAttempted(t)
      ]_vars

\* C9: a send for sensor a changes no entry of another sensor, and whether
\* the alert of a sensor b is attempted in a cycle that finds b's condition
\* is decided by b's own entry alone: attempted exactly when b has no entry or
\* its entry is at least 4 h old, whatever the entries of the other sensors.
C9_PerSensor ==
    [][ \A t \in Tasks :
          /\ ConnSendStep(t) =>
               \A b \in Sensors \ {ConnSensor(t)} :
                  /\ b \in DOMAIN last_connection_alert' <=> b \in DOMAIN last_connection_alert
                  /\ b \in DOMAIN last_connection_alert
                       => last_connection_alert'[b] = last_connection_alert[b]
          /\ HumSendStep(t) =>
               \A b \in Sensors \ {HumSensor(t)} :
                  /\ b \in DOMAIN last_humidity_alert' <=> b \in DOMAIN last_humidity_alert
                  /\ b \in DOMAIN last_humidity_alert
                       => last_humidity_alert'[b] = last_humidity_alert[b]
          /\ ConnEvalAt(t) =>
               LET b == ConnSensor(t) IN
               IF b \in DOMAIN last_connection_alert
                  /\ now[t] < last_connection_alert[b] + 240
               THEN ConnSkipped(t) ELSE ConnAttempted(t)
          /\ HumEvalAt(t) =>
               LET b == HumSensor(t) IN
               IF b \in DOMAIN last_humidity_alert
                  /\ clock < last_humidity_alert[b] + 240
               THEN HumSkipped(t) ELSE HumAttempted(t)
      ]_vars

\* C9 witness: sensor 2 is being notified while sensor 1 is inside the
\* cooldown of both of its alerts
C9_Witness ==
    \E t \in Tasks :
        /\ pc[t] = "hum_send" /\ msg[t].sensor = 2
        /\ 2 \notin DOMAIN last_humidity_alert
        /\ InCooldown(last_humidity_alert, 1, clock)
        /\ InCooldown(last_connection_alert, 1, clock)

\* C10: a reading raises an alert exactly when it is above the high or below
\* the low threshold (a reading equal to a threshold raises none); the alert is
\* Critical exactly when the reading is above high * 1.15 or below low * 0.85,
\* and Warning otherwise (high * 1.2: Critical; high * 1.05 and exactly
\* high * 1.15: Warning); the threshold it reports is the high one when the
\* reading is above high, else the low one.
C10_Severity ==
    lv_out # <<>> =>
       LET o == lv_out[1]
           h == lv_humidity
       IN
       /\ o.alert <=> (h > lv_high \/ h < lv_low)
       /\ (h = lv_high \/ h = lv_low) => ~o.alert
       /\ o.alert =>
            /\ o.level \in {"CRITICAL", "WARNING"}
            /\ o.level = "CRITICAL" <=> (100 * h > 115 * lv_high \/ 100 * h < 85 * lv_low)
            /\ o.threshold = IF h > lv_high THEN lv_high ELSE lv_low
       /\ 10 * h = 12 * lv_high => o.alert /\ o.level = "CRITICAL"
       /\ 100 * h = 105 * lv_high => o.alert /\ o.level = "WARNING"
       /\ 100 * h = 115 * lv_high => o.alert /\ o.level = "WARNING"

\* C10 witness: a reading exactly at high * 1.15 was classified, as a Warning
C10_Witness ==
    /\ lv_out # <<>>
    /\ 100 * lv_humidity = 115 * lv_high
    /\ lv_out[1].alert /\ lv_out[1].level = "WARNING"

\* C11: a measurement above overflow_level is classified above-overflow,
\* whatever the order of the other three levels.
C11_AboveOverflow ==
    (ga_out # <<>> /\ ga_humidity > 10 * ga_sensor.overflow_level)
        => ga_out[1] = "above_overflow"

\* C12: a measurement strictly below critical_level is classified
\* below-critical, also when it is below warning_level and alert_level or above
\* overflow_level, for every order of the four levels.
C12_BelowCritical ==
    (ga_out # <<>> /\ ga_humidity < 10 * ga_sensor.critical_level)
        => ga_out[1] = "below_critical"

\* C12 witness: a value below all three low levels was classified
C12_Witness ==
    /\ ga_out = <<"below_critical">>
    /\ ga_humidity < 10 * ga_sensor.critical_level
    /\ ga_humidity < 10 * ga_sensor.warning_level
    /\ ga_humidity < 10 * ga_sensor.alert_level
    /\ ga_sensor.critical_level < ga_sensor.warning_level

\* sensors of the table the check endpoint has to report
CkLatest(i) == ck_rows[i].measurements[Len(ck_rows[i].measurements)]
CkReportable(i) ==
    /\ ck_rows[i].measurements # <<>>
    /\ \/ CkLatest(i) > 10 * ck_rows[i].overflow_level
       \/ CkLatest(i) < 10 * ck_rows[i].alert_level
CkReported(i) == \E j \in 1 .. Len(ck_out[1].lines) : ck_out[1].lines[j].id = i

\* C13 as stated: a sensor is reported exactly when it has a measurement and
\* its latest value is > overflow_level or < alert_level, and the result is
\* the empty text whenever no sensor is alert-worthy.
C13_CheckAsStated ==
    ck_out # <<>> =>
        /\ \A i \in 1 .. Len(ck_rows) : CkReported(i) <=> CkReportable(i)
        /\ (\A i \in 1 .. Len(ck_rows) : ~CkReportable(i))
             => ck_out[1] = [status |-> 200, lines |-> <<>>]

\* C13: with at least one sensor row the response is 200 and reports, once
\* each and in table order, exactly the sensors that have a measurement whose
\* latest value is > overflow_level or < alert_level (the empty text when
\* there is none); with no sensor row the response is 404, not a text.
C13_CheckReports ==
    ck_out # <<>> =>
        IF ck_rows = <<>>
        THEN ck_out[1] = [status |-> 404, lines |-> <<>>]
        ELSE /\ ck_out[1].status = 200
             /\ \A i \in 1 .. Len(ck_rows) : CkReported(i) <=> CkReportable(i)
             /\ \A j \in 1 .. Len(ck_out[1].lines) :
                  /\ ck_out[1].lines[j].humidity = CkLatest(ck_out[1].lines[j].id)
                  /\ \A k \in 1 .. Len(ck_out[1].lines) :
                       j < k => ck_out[1].lines[j].id < ck_out[1].lines[k].id
             /\ (\A i \in 1 .. Len(ck_rows) : ~CkReportable(i)) => ck_out[1].lines = <<>>

\* C13 witness: of two sensors one is reported; the other, whose older value
\* was out of range and whose latest lies on a level, is not
C13_Witness ==
    /\ ck_out # <<>> /\ Len(ck_rows) = 2
    /\ Len(ck_out[1].lines) = 1 /\ ck_out[1].lines[1].id = 2
    /\ ck_rows[1].measurements = <<5, 20>>
    /\ ck_rows[1].alert_level = 2 /\ ck_rows[1].overflow_level = 2

\* C14: the connection pass lists a sensor as stale exactly when the time
\* since its last connection is strictly greater than
\* connection_threshold_minutes; every connection alert is sent at Warning;
\* a stale sensor without a recorded alert is notified, and while its recorded
\* alert is less than 4 h old the checks that follow send nothing for it.
C14_Staleness ==
    [][ \A t \in Tasks :
          /\ (pc[t] = "cycle" /\ pc'[t] = "conn_eval") =>
               /\ \A s \in sensors :
                    (\E i \in 1 .. Len(stale_sensors'[t]) : stale_sensors'[t][i] = s)
                      <=> clock - last_connection[s] > connection_threshold_minutes
               /\ \A i \in 1 .. Len(stale_sensors'[t]) : stale_sensors'[t][i] \in sensors
          /\ pc'[t] = "conn_send" => msg'[t].kind = "connection"
          /\ msg'[t].kind = "connection" => msg'[t].level = "WARNING"
          /\ (ConnEvalAt(t) /\ ConnSensor(t) \notin DOMAIN last_connection_alert)
               => ConnAttempted(t)
          /\ (ConnEvalAt(t) /\ ConnSensor(t) \in DOMAIN last_connection_alert
              /\ now[t] < last_connection_alert[ConnSensor(t)] + 240)
               => ConnSkipped(t)
      ]_vars

\* C14 witness: a sensor was notified when 90 minutes silent, and the check
\* 5 minutes later found it stale and sent nothing
C14_Witness ==
    \E t \in Tasks :
        /\ pc[t] = "conn_eval" /\ cpu = t
        /\ stale_sensors[t] = <<1>> /\ idx[t] = 2
        /\ 1 \in DOMAIN last_connection_alert
        /\ last_connection_alert[1] - last_connection[1] = 90
        /\ now[t] = 95

\* the batch of _send_alert ends in this step without a cancellation
BatchEnds == m_task = "send" /\ m_task' # "send" /\ ~m_cancel
SomeSendSucceeded(attempts) == \E i \in 1 .. Len(attempts) : attempts[i].ok

\* C15: an alert that is not rate-limited is sent to every chat id, once each
\* and in order, whether or not the sends to earlier chat ids failed; a failed
\* send neither ends the batch nor ends the task.
C15_EveryRecipientTried ==
    [][ /\ (m_task # "send" /\ m_task' = "send") => (m_chat_i' = 1 /\ m_attempts' = <<>>)
        /\ (m_task = "send" /\ m_attempts' # m_attempts) =>
              /\ Len(m_attempts') = Len(m_attempts) + 1
              /\ \A i \in 1 .. Len(m_attempts) : m_attempts'[i] = m_attempts[i]
              /\ m_attempts'[Len(m_attempts')].chat = Len(m_attempts) + 1
              /\ Len(m_attempts') <= NumChats
        /\ (m_task = "send" /\ m_task' = "send" /\ m_attempts' # m_attempts)
              => m_chat_i' = Len(m_attempts') + 1
        /\ BatchEnds =>
              /\ Len(m_attempts') = NumChats
              /\ \A i \in 1 .. NumChats : m_attempts'[i].chat = i
              /\ m_task' = "sleep"
        /\ (m_task = "send" /\ m_task' = "done") => m_cancel
      ]_vars

\* C15 witness: the send to the first chat id failed and the second chat id
\* is being sent to
C15_Witness ==
    /\ m_task = "send" /\ m_chat_i = 2
    /\ m_attempts = <<[chat |-> 1, ok |-> FALSE]>>

\* C16: last_alert and last_alert_time are written only at the end of a
\* batch, and exactly when at least one send of the batch succeeded (then to
\* the message and the time of the batch); a batch whose sends all failed
\* leaves them as they were, and a check that finds no cooldown running can
\* send the alert it gets.
C16_CooldownOnlyOnSuccess ==
    /\ [][ /\ BatchEnds =>
                IF SomeSendSucceeded(m_attempts')
                THEN m_last_alert' = <<m_alert>> /\ m_last_alert_time' = <<clock>>
                ELSE m_last_alert' = m_last_alert /\ m_last_alert_time' = m_last_alert_time
           /\ ~BatchEnds =>
                m_last_alert' = m_last_alert /\ m_last_alert_time' = m_last_alert_time
         ]_vars
    /\ []((/\ m_task = "http" /\ ~m_cancel
           /\ (m_last_alert_time = <<>> \/ clock - m_last_alert_time[1] >= 240))
            => ENABLED (MHttpDone("A") /\ m_task' = "send"))

\* C16 witness: a batch in which one send failed and one succeeded has
\* started the cooldown
C16_Witness ==
    /\ m_task = "sleep"
    /\ m_attempts = <<[chat |-> 1, ok |-> FALSE], [chat |-> 2, ok |-> TRUE]>>
    /\ m_last_alert_time = <<clock>> /\ m_last_alert # <<>>

\* C17: a check-now request runs exactly one cycle in the request itself; an
\* error of the cycle is answered with HTTP 500 and sends no "Monitor Error"
\* system alert; the request is answered "check completed" only after both
\* passes of the cycle ran without an error.
C17_ManualCheck ==
    [][\A r \in Requests :
        /\ (pc[r] = "free" /\ pc'[r] # "free")
              => pc'[r] = "cycle" /\ cpu' = r /\ call_result'[r] = "none"
        /\ (pc'[r] = "cycle" /\ pc[r] # "cycle") => pc[r] = "free"
        /\ (pc[r] \in {"cycle", "hum_query"} /\ raised'[r] # "none")
              => pc'[r] = "handler" /\ cpu' = r
        /\ (pc[r] = "handler" /\ pc'[r] # "handler")
              => pc'[r] = "free" /\ call_result'[r] = "500" /\ msg' = msg
        /\ pc'[r] \notin {"err_send", "sleep"}
        /\ msg'[r].kind # "system:Monitor Error"
        /\ (call_result'[r] = "check completed" /\ call_result[r] # "check completed")
              => pc[r] = "returning" /\ raised[r] = "none" /\ hum_ran[r]
        /\ (pc[r] = "returning" /\ pc'[r] # "returning")
              => pc'[r] = "free" /\ call_result'[r] = "check completed"
      ]_vars

\* a request whose cycle failed has been answered with HTTP 500
C17_Witness ==
    \E r \in Requests : pc[r] = "free" /\ call_result[r] = "500"

\* C18: in the threshold pass a sensor with zero measurements never gets a
\* humidity notification attempted and never has an entry in
\* last_humidity_alert; the pass steps over its row.
C18_NoMeasurementNoHumidityAlert ==
    /\ [](\A s \in DOMAIN last_humidity_alert : reading[s] # <<>>)
    /\ [][\A t \in Execs :
            /\ (pc'[t] = "hum_send" /\ pc[t] # "hum_send")
                  => /\ msg'[t].kind = "humidity"
                     /\ reading[msg'[t].sensor] # <<>>
            /\ (/\ cpu = t /\ pc[t] = "hum_eval" /\ idx[t] <= Len(latest_readings[t])
                /\ reading[latest_readings[t][idx[t]].sensor_id] = <<>>)
                  => /\ pc'[t] = "hum_eval" /\ idx'[t] = idx[t] + 1
                     /\ msg' = msg /\ last_humidity_alert' = last_humidity_alert
       ]_vars

\* the threshold pass has stepped over a sensor without measurements that the
\* liveness pass has notified
C18_Witness ==
    \E t \in Tasks :
        /\ pc[t] = "hum_eval" /\ idx[t] > 1
        /\ reading[latest_readings[t][1].sensor_id] = <<>>
        /\ latest_readings[t][1].sensor_id \in DOMAIN last_connection_alert

\* the template last registered under name by the add_template calls of log,
\* <<>> when there is none
RegisteredIn(log, name) ==
    LET hits == {i \in DOMAIN log : log[i].name = name} IN
    IF hits = {} THEN <<>>
    ELSE <<log[CHOOSE i \in hits : \A j \in hits : j <= i].template>>

\* the template in force for name: the one registered last, else the built-in one
InForce(log, name) ==
    IF RegisteredIn(log, name) # <<>> THEN RegisteredIn(log, name)
    ELSE IF name \in DOMAIN BuiltinTemplates THEN <<BuiltinTemplates[name]>>
    ELSE <<>>

\* C19: after any sequence of add_template calls, send_with_template_async
\* formats with the template registered last under the name (a later
\* registration overrides an earlier one and a built-in one); for a name that
\* was never registered it raises KeyError and hands nothing to the bot.
C19_Templates ==
    [][tp_out' # tp_out =>
         LET name == tp_out'.name
             kw == WithLevel(tp_out'.kwargs, tp_out'.level)
             t == InForce(tp_log, name)
         IN  IF t = <<>>
             THEN tp_out'.outcome = "KeyError" /\ tp_out'.sent = <<>>
             ELSE IF Formattable(t[1], kw)
             THEN /\ tp_out'.sent = <<Format(t[1], kw)>>
                  /\ tp_out'.outcome \in {"True", "False"}
             ELSE tp_out'.outcome = "KeyError" /\ tp_out'.sent = <<>>
      ]_vars

\* a send used a template registered over an earlier registration of the name
C19_Witness ==
    /\ tp_out # <<>> /\ tp_out.sent # <<>>
    /\ \E i, j \in DOMAIN tp_log :
          /\ i < j /\ tp_log[i].name = tp_out.name /\ tp_log[j].name = tp_out.name
          /\ tp_log[i].template # tp_log[j].template
          /\ \A k \in DOMAIN tp_log : k > j => tp_log[k].name # tp_out.name
          /\ tp_out.sent[1].text = tp_log[j].template.text

\* C20: last_humidity_alert and last_connection_alert are written only by the
\* background monitoring task: every step that changes one of them is a send
\* step of the task held in monitor_task, never a step of a request handler.
C20_SingleWriter ==
    [][(last_humidity_alert' # last_humidity_alert
          \/ last_connection_alert' # last_connection_alert)
         => /\ monitor_task \in Tasks
            /\ ConnSendStep(monitor_task) \/ HumSendStep(monitor_task)
            /\ \A r \in Requests : pc'[r] = pc[r]
      ]_vars

\* positions of a cycle inside the liveness pass and inside the threshold pass
ConnPhase == {"conn_eval", "conn_send"}
HumPhase == {"hum_query", "hum_eval", "hum_send"}

\* C21: in every check cycle the liveness pass over all stale sensors is
\* complete before the threshold pass starts, and no connection notification
\* follows a step of the threshold pass of the same cycle.
C21_PassOrder ==
    [][\A t \in Execs :
         /\ (pc'[t] \in HumPhase /\ pc[t] \notin HumPhase)
               => /\ pc[t] = "conn_eval" /\ idx[t] > Len(stale_sensors[t])
                  /\ pc'[t] = "hum_query"
         /\ (pc'[t] \in ConnPhase /\ pc[t] \notin ConnPhase) => pc[t] = "cycle"
         /\ pc[t] \in HumPhase => pc'[t] \notin ConnPhase
         /\ (pc'[t] = "hum_send" /\ pc[t] # "hum_send")
               => msg'[t].kind = "humidity" /\ stale_sensors[t] = <<>>
      ]_vars

\* a humidity notification is being sent in a cycle whose liveness pass has
\* notified both sensors
C21_Witness ==
    \E t \in Tasks :
        /\ pc[t] = "hum_send" /\ msg[t].kind = "humidity"
        /\ \A s \in Sensors :
              s \in DOMAIN last_connection_alert /\ last_connection_alert[s] = now[t]

\* a step of a check cycle: some coroutine that runs _check_all_sensors moves
CycleStep ==
    \E t \in Execs :
        /\ pc[t] \in {"cycle", "conn_eval", "conn_send", "hum_query", "hum_eval", "hum_send"}
        /\ <<pc[t], idx[t]>> # <<pc'[t], idx'[t]>>

FireStrictlyOlder(map, s, n) == s \notin DOMAIN map \/ map[s] < n - alert_cooldown

\* the fire decision with an entry exactly alert_cooldown old firing
FireAtOrOlder(map, s, n) == s \notin DOMAIN map \/ map[s] <= n - alert_cooldown

\* C24 as stated: the notification is attempted if and only if the sensor has
\* no entry or its entry is strictly older than now - 4 h; an entry exactly
\* 4 h old suppresses.
C24_FireAsStated ==
    [][\A t \in Execs :
         /\ ConnEvalAt(t) =>
              /\ ConnAttempted(t) <=> FireStrictlyOlder(last_connection_alert,
                                                         ConnSensor(t), now[t])
              /\ ConnSkipped(t) <=> ~FireStrictlyOlder(last_connection_alert,
                                                        ConnSensor(t), now[t])
         /\ HumEvalAt(t) =>
              /\ HumAttempted(t) <=> FireStrictlyOlder(last_humidity_alert,
                                                        HumSensor(t), clock)
              /\ HumSkipped(t) <=> ~FireStrictlyOlder(last_humidity_alert,
                                                       HumSensor(t), clock)
      ]_vars

\* C24 amended: the notification is attempted if and only if the sensor has
\* no entry or its entry is at least 4 h old (timestamp <= now - 4 h); only
\* an entry younger than 4 h suppresses, an entry exactly 4 h old does not.
C24_FireDecision ==
    [][\A t \in Execs :
         /\ ConnEvalAt(t) =>
              /\ ConnAttempted(t) <=> FireAtOrOlder(last_connection_alert,
                                                     ConnSensor(t), now[t])
              /\ ConnSkipped(t) <=> ~FireAtOrOlder(last_connection_alert,
                                                    ConnSensor(t), now[t])
         /\ HumEvalAt(t) =>
              /\ HumAttempted(t) <=> FireAtOrOlder(last_humidity_alert,
                                                    HumSensor(t), clock)
              /\ HumSkipped(t) <=> ~FireAtOrOlder(last_humidity_alert,
                                                   HumSensor(t), clock)
      ]_vars

\* a connection notification is attempted for a sensor whose entry is exactly
\* 4 h old
C24_Witness ==
    \E t \in Tasks :
        /\ pc[t] = "conn_send"
        /\ msg[t].sensor \in DOMAIN last_connection_alert
        /\ now[t] - last_connection_alert[msg[t].sensor] = alert_cooldown

\* the lifecycle of the entries of one dedup map over a step; kind is the
\* position of the send that may write it
EntryLifecycle(map, map2, kind) ==
    /\ DOMAIN map \subseteq DOMAIN map2
    /\ \A s \in DOMAIN map2 :
          (s \notin DOMAIN map \/ map2[s] # map[s])
             => /\ \E t \in Execs :
                      /\ pc[t] = kind /\ pc'[t] # kind
                      /\ msg[t].sensor = s /\ alert_sent'[t]
                /\ map2[s] <= clock
                /\ s \in DOMAIN map => map2[s] >= map[s]

\* C23: both dedup maps are empty when the monitor is created; an entry
\* appears or changes only when a notification for its sensor was sent
\* successfully; an entry is never deleted; an update never moves the
\* timestamp back and never beyond the current time.
C23_EntryLifecycle ==
    /\ last_humidity_alert = <<>> /\ last_connection_alert = <<>>
    /\ [][/\ EntryLifecycle(last_connection_alert, last_connection_alert', "conn_send")
          /\ EntryLifecycle(last_humidity_alert, last_humidity_alert', "hum_send")
         ]_vars

C26_RetriesUntilSuccess ==
    /\ (eg_pc = "returned" /\ eg_result = "None") => eg_tries >= engine_max_retries
    /\ (eg_pc = "raised" /\ eg_tries > 0) => eg_tries = engine_max_retries
    /\ (eg_pc = "returned" /\ eg_result = "engine")
          => eg_slept = (eg_tries - 1) * engine_retry_delay
    /\ eg_tries <= engine_max_retries

OperationalErrors == {"connect_OperationalError", "create_all_OperationalError"}

\* the part of C27 that does not speak about SessionLocal
InitDbAttempts ==
    /\ Len(id_log) <= id_max_retries
    /\ \A i \in DOMAIN id_log : i < Len(id_log) => id_log[i] \in OperationalErrors
    /\ id_result = "True"
          => /\ id_log # <<>> /\ id_log[Len(id_log)] = "ok"
             /\ id_engine = <<Len(id_log) - 1>>
             /\ id_SessionLocal = <<Len(id_log) - 1>>
    /\ (id_log # <<>> /\ id_log[Len(id_log)] = "ok") => id_result = "True"
    /\ (id_log # <<>> /\ id_log[Len(id_log)] \in OperationalErrors
        /\ Len(id_log) < id_max_retries)
          => id_pc = "loop" /\ id_slept = Len(id_log) * id_retry_delay
    /\ (id_log # <<>> /\ id_log[Len(id_log)] \in OperationalErrors
        /\ Len(id_log) = id_max_retries)
          => id_pc = "raised" /\ id_result = "OperationalError"
    /\ id_result = "OperationalError" => Len(id_log) = id_max_retries
    /\ id_max_retries >= 1 => id_result # "False"

\* C27 as stated: init_database makes at most max_retries attempts and
\* terminates, returns True at the first attempt that succeeds, retries after
\* an OperationalError while attempts remain, re-raises the last one, never
\* returns False with max_retries >= 1, and SessionLocal is set only on success.
C27_InitAsStated ==
    /\ [](InitDbAttempts /\ (id_SessionLocal # <<>> => id_result = "True"))
    /\ <>(id_pc \in {"returned", "raised"})

\* C27 amended: as stated, except that SessionLocal is set only by an attempt
\* whose connection test succeeded: the attempt that returns True, or one
\* whose create_all then raised OperationalError.
C27_InitDatabase ==
    /\ [](/\ InitDbAttempts
          /\ id_SessionLocal # <<>>
               => id_log[id_SessionLocal[1] + 1] \in {"ok", "create_all_OperationalError"}
          /\ \A i \in DOMAIN id_log :
               id_log[i] \in {"ok", "create_all_OperationalError"}
                  => id_SessionLocal # <<>> /\ id_SessionLocal[1] >= i - 1)
    /\ <>(id_pc \in {"returned", "raised"})

\* init_database returned True at its third attempt
C27_Witness ==
    /\ id_pc = "returned" /\ id_result = "True"
    /\ Len(id_log) = 3 /\ id_slept = 2 * id_retry_delay

\* C28: under any interleaving of a scheduled cycle with a manual cycle, the
\* cooldown test of one cycle for a sensor and the recording of its send are
\* not separated by another cycle's test of the same sensor: while one cycle
\* waits for the send of a sensor's notification, no other cycle is sending a
\* notification of that kind for that sensor, and a successful send is never
\* recorded for a sensor whose entry is younger than 4 h.
C28_NoDoubleSend ==
    /\ [](\A a, b \in Execs :
            (/\ a # b
             /\ pc[a] \in {"conn_send", "hum_send"} /\ pc[b] = pc[a]
             /\ ~cancel_req[a] /\ ~cancel_req[b])
               => msg[a].sensor # msg[b].sensor)
    /\ [][\A t \in Execs :
            /\ (ConnSendStep(t) /\ alert_sent'[t]
                /\ msg[t].sensor \in DOMAIN last_connection_alert)
                  => clock - last_connection_alert[msg[t].sensor] >= alert_cooldown
            /\ (HumSendStep(t) /\ alert_sent'[t]
                /\ msg[t].sensor \in DOMAIN last_humidity_alert)
                  => clock - last_humidity_alert[msg[t].sensor] >= alert_cooldown
       ]_vars

\* the _monitoring_loop tasks that have been created and have not ended
AliveTasks == {t \in Tasks : pc[t] \notin {"free", "done"}}

\* C29: under any interleaving of concurrent start() and stop() calls at most
\* one _monitoring_loop task is alive, every alive task that has not been
\* cancelled is the one _monitor_task refers to, and once no call is in
\* progress and _monitor_task is None no loop is left running.
C29_OneLoop ==
    /\ Cardinality(AliveTasks) <= 1
    /\ \A t \in AliveTasks : ~cancel_req[t] => monitor_task = t
    /\ (monitor_task = NoTask /\ \A c \in Callers : callPc[c] = "idle") => AliveTasks = {}

\* the first step of a run_periodic_checks task of the responder
MonitorTaskStep ==
    /\ service = "responder"
    /\ MTaskStart
    /\ UNCHANGED <<service, clock, apiVars, levelVars, extVars>>

\* the event loop of either service runs every task that can run
SpecRestart == SpecLive /\ WF_vars(MonitorTaskStep)

\* C30: once stop() has returned no task is referred to, so the next start()
\* is not a no-op: it creates a new loop task, not cancelled, whose first step
\* begins a check cycle (HumidityMonitor) resp. sets running and issues the
\* request of a check (Monitor), and a created task that is not cancelled
\* does take that step; the dedup maps of HumidityMonitor change neither
\* while no task is referred to nor in the step that replaces it.
C30_Restartable ==
    /\ [](/\ \A c \in Callers :
               (callPc[c] = "idle" /\ call_result[c] = "stopped") => monitor_task = NoTask
          /\ (m_callPc = "idle" /\ m_call_result = "stopped") => m_task \in {"None", "done"})
    /\ [][/\ \A c \in Callers :
               /\ (monitor_task = NoTask /\ callPc[c] = "idle" /\ call_result'[c] # call_result[c])
                    => \/ callPc'[c] = "start_send"
                       \/ call_result'[c] = "stop_noop"
               /\ (callPc[c] = "start_send" /\ callPc'[c] = "idle")
                    => /\ monitor_task' \in Tasks
                       /\ pc[monitor_task'] = "free"
                       /\ pc'[monitor_task'] = "new"
                       /\ ~cancel_req'[monitor_task']
          /\ \A t \in Tasks :
               (pc[t] = "new" /\ pc'[t] # "new")
                    => \/ pc'[t] = "cycle"
                       \/ cancel_req[t] /\ pc'[t] = "done"
          /\ (monitor_task = NoTask \/ monitor_task' # monitor_task)
               => UNCHANGED <<last_humidity_alert, last_connection_alert>>
          /\ (m_task \in {"None", "done"} /\ m_call_result' # m_call_result)
               => \/ m_task' = "new" /\ ~m_cancel' /\ m_call_result' = "started"
                  \/ m_call_result' = "stopped" /\ m_task' = m_task
          /\ (m_task = "new" /\ m_task' # "new")
               => \/ m_task' = "http" /\ m_running'
                  \/ m_cancel /\ m_task' = "done"
         ]_vars
    /\ \A t \in Tasks : (pc[t] = "new") ~> (pc[t] = "cycle" \/ cancel_req[t])
    /\ (m_task = "new") ~> (m_task = "http" \/ m_cancel)

\* C30 witness: a task created by a start() has not run yet while the maps
\* hold an entry that a task before it recorded
C30_Witness ==
    /\ monitor_task \in Tasks
    /\ pc[monitor_task] = "new" /\ ~cancel_req[monitor_task]
    /\ call_result[Lifespan] = "started"
    /\ last_connection_alert # <<>>
    /\ last_humidity_alert # <<>>

\* ================================= the two display classifications
\* get_alert_text of src/api/app.py next to get_alert_text of src/api/API.py
MaxPairLevel == 4
PairLevels == 1 .. MaxPairLevel
PairHumidity == {5 * k : k \in 0 .. (2 * MaxPairLevel + 2)}
PairRows == [overflow_level : PairLevels, alert_level : PairLevels,
             warning_level : PairLevels, critical_level : PairLevels]

\* variant: the chain tests `<=` against critical_level
IconOfAppInclusive(h, sensor) ==
    IF h > 10 * sensor.overflow_level THEN "above_overflow"
    ELSE IF h <= 10 * sensor.critical_level THEN "below_critical"
    ELSE IF h < 10 * sensor.warning_level THEN "below_warning"
    ELSE IF h < 10 * sensor.alert_level THEN "below_alert"
    ELSE "ok"

\* get_alert_text of app.py: if / elif / elif / elif / else
IconOfApp(h, sensor) ==
    IF h > 10 * sensor.overflow_level THEN "above_overflow"
    ELSE IF h < 10 * sensor.critical_level THEN "below_critical"
    ELSE IF h < 10 * sensor.warning_level THEN "below_warning"
    ELSE IF h < 10 * sensor.alert_level THEN "below_alert"
    ELSE "ok"

\* get_alert_text of app.py on the same sensor and measurement, after the
\* one of API.py: its icon is the second entry of ga_out
AppGetAlertText ==
    /\ Len(ga_out) = 1
    /\ ga_out' = Append(ga_out, IconOfApp(ga_humidity, ga_sensor))
    /\ UNCHANGED <<ga_sensor, ga_humidity>>

InitIconPair ==
    /\ clock = 0
    /\ service = "icon" /\ IdleApi /\ IdleResponder /\ IdleLevel
    /\ ga_sensor \in PairRows
    /\ ga_humidity \in PairHumidity
    /\ ga_out = <<>>
    /\ ck_rows = <<>> /\ ck_out = <<>>
    /\ IdleTemplates /\ IdleMore

NextIconPair ==
    /\ \/ GetAlertText
       \/ AppGetAlertText
    /\ UNCHANGED <<service, clock, apiVars, responderVars, levelVars, ck_rows, ck_out,
                   templateVars, moreVars>>

SpecIconPair == InitIconPair /\ [][NextIconPair]_vars

\* the levels of the sensor are strictly ordered
LevelsOrdered(sensor) ==
    /\ sensor.critical_level < sensor.warning_level
    /\ sensor.warning_level < sensor.alert_level
    /\ sensor.alert_level < sensor.overflow_level

\* C31: for a sensor with critical_level < warning_level < alert_level <
\* overflow_level and any humidity, the if/elif chain of app.py and the
\* overriding ifs of API.py choose the same glyph.
C31_SameGlyph ==
    (Len(ga_out) = 2 /\ LevelsOrdered(ga_sensor)) => ga_out[1] = ga_out[2]

\* C31 witness: both have run on an ordered sensor with a humidity below
\* warning_level, where API.py overrides the glyph it chose first
C31_Witness ==
    /\ Len(ga_out) = 2 /\ LevelsOrdered(ga_sensor)
    /\ ga_humidity < 10 * ga_sensor.warning_level
    /\ ga_humidity >= 10 * ga_sensor.critical_level
    /\ ga_out[2] = "below_warning"

\* ============================================ deliveries of the responder
\* `await self.bot.send_message(...)` returned without raising in this step
SendDelivered ==
    /\ m_task = "send"
    /\ Len(m_attempts') = Len(m_attempts) + 1
    /\ m_attempts'[Len(m_attempts')].ok

\* one step of Monitor; m_delivered keeps the time of the last delivery
ResponderStep ==
    /\ ResponderNext
    /\ m_delivered' = IF SendDelivered THEN <<clock>> ELSE m_delivered

InitRate == Init /\ service = "responder"

NextRate ==
    \/ /\ \E t \in Instants : Tick(t)
       /\ UNCHANGED <<service, responderVars, levelVars, extVars>>
    \/ /\ ResponderStep
       /\ UNCHANGED <<service, clock, apiVars, levelVars, displayVars, templateVars,
                      latestVars, engineVars, initDbVars, ingestVars, chatVars, appVars>>

SpecRate == InitRate /\ [][NextRate]_vars

\* a send of _send_alert returns or raises in this step
SendStep == m_task = "send" /\ m_attempts' # m_attempts

\* C32: the first send of a batch, and every send of a batch that has not
\* delivered yet, happens at least 4 hours after the last delivery to any
\* chat, whatever the text; a check that ends without a batch (empty text
\* among the cases) sends nothing and leaves last_alert_time as it was, and a
\* batch always carries a non-empty text.
C32_GlobalRateLimit ==
    [][/\ (SendStep /\ ~SomeSendSucceeded(m_attempts) /\ m_delivered # <<>>)
            => clock - m_delivered[1] >= min_alert_interval
       /\ (m_task # "send" /\ m_task' = "send")
            => /\ m_alert' \in AlertTexts
               /\ m_delivered # <<>> => clock - m_delivered[1] >= min_alert_interval
       /\ (m_task = "http" /\ m_task' # "send")
            => /\ m_last_alert_time' = m_last_alert_time
               /\ m_attempts' = m_attempts
               /\ m_delivered' = m_delivered
      ]_vars

\* a send of the notifier made by a pass of t comes back in this step
PassSendEnds(t) == pc[t] \in {"conn_send", "hum_send"} /\ pc'[t] # pc[t]

\* C33: a send of the notifier ends by returning a boolean to the pass (the
\* pass goes on with its loop, it never goes to the exception handler) unless
\* the task was cancelled; the boolean is True only with an enabled notifier;
\* the send of the 'Monitor Error' alert never raises either.  With a disabled
\* notifier both dedup maps stay empty, every send returns False, and every
\* stale sensor and every out-of-range reading a cycle meets is sent again.
C33_SendOutcome ==
    /\ [](~enabled => (last_humidity_alert = <<>> /\ last_connection_alert = <<>>))
    /\ [][\A t \in Tasks :
            /\ PassSendEnds(t)
                 => \/ /\ pc'[t] = (IF pc[t] = "conn_send" THEN "conn_eval" ELSE "hum_eval")
                       /\ alert_sent'[t] \in BOOLEAN
                       /\ alert_sent'[t] => enabled
                       /\ raised'[t] = raised[t]
                    \/ cancel_req[t] /\ pc'[t] = "done"
            /\ (pc[t] = "err_send" /\ pc'[t] # "err_send")
                 => \/ pc'[t] = "sleep"
                    \/ cancel_req[t] /\ pc'[t] = "done"
            /\ (~enabled /\ cpu = t /\ pc[t] = "conn_eval"
                /\ idx[t] <= Len(stale_sensors[t]))
                 => (pc'[t] = "conn_send" /\ msg'[t].sensor = stale_sensors[t][idx[t]])
            /\ (~enabled /\ cpu = t /\ pc[t] = "hum_eval"
                /\ idx[t] <= Len(latest_readings[t])
                /\ latest_readings[t][idx[t]].humidity # <<>>
                /\ OutOfRange(latest_readings[t][idx[t]].humidity[1],
                              humidity_threshold_high, humidity_threshold_low))
                 => (pc'[t] = "hum_send"
                     /\ msg'[t].sensor = latest_readings[t][idx[t]].sensor_id)
       ]_vars

\* C33 witness: with a disabled notifier a connection alert is being sent
\* again for a sensor whose earlier send returned False, in a later cycle,
\* and nothing has been recorded
C33_Witness ==
    /\ ~enabled
    /\ \E t \in Tasks :
        /\ pc[t] = "conn_send"
        /\ <<"connection", msg[t].sensor>> \in send_failed
        /\ now[t] = 240
    /\ last_connection_alert = <<>> /\ last_humidity_alert = <<>>

\* ===================================== create_measurement of src/api/API.py
\* The tables start empty; humidity_sensors.id is a serial column and rows
\* are never deleted, so the next id is the number of rows plus one.
IngestHumValues == {80, 500}
NextSensorId == Cardinality(sensors) + 1

\* POST /humidityMeasurements/ with sensor_id k and humidity h.  The sensor
\* row of an unknown k is `HumiditySensor(name="Unknown")`, committed before
\* the measurement; the measurement row refers to k through the foreign key
\* of humidity_measurements.sensor_id, and a commit that violates it raises:
\* the request ends with status 500 and its transaction is rolled back.
CreateMeasurement(k, h) ==
    /\ Len(lt_rows) < MaxRows
    /\ LET known == k \in sensors
           n == NextSensorId
           sensor == IF known THEN k ELSE n
           sensors1 == IF known THEN sensors ELSE sensors \cup {n}
           names1 == IF known THEN sensor_name ELSE [sensor_name EXCEPT ![n] = "Unknown"]
           conn1 == IF known THEN last_connection ELSE [last_connection EXCEPT ![n] = clock]
           seq == IF cm_last = <<>> THEN 1 ELSE cm_last.seq + 1
       IN
       /\ sensors' = sensors1
       /\ sensor_name' = names1
       /\ IF k \in sensors1
          THEN /\ last_connection' = [conn1 EXCEPT ![sensor] = clock]
               /\ lt_rows' = Append(lt_rows, [sensor_id |-> k, humidity |-> h, date |-> clock])
               /\ reading' = [reading EXCEPT ![k] = <<h>>]
               /\ cm_last' = [seq |-> seq, sensor_id |-> k, status |-> 200, updated |-> sensor]
          ELSE /\ last_connection' = conn1
               /\ UNCHANGED <<lt_rows, reading>>
               /\ cm_last' = [seq |-> seq, sensor_id |-> k, status |-> 500, updated |-> sensor]
    /\ UNCHANGED <<lt_qlen, lt_snapshot, lt_i, lt_seen>>
    /\ UNCHANGED <<enabled, dedupVars, monitor_task, cpu, pc, localVars, cancel_req, callVars>>

InitIngest ==
    /\ clock = 0
    /\ service = "ingest" /\ IdleApi /\ IdleResponder /\ IdleLevel
    /\ IdleExt

NextIngest ==
    \/ /\ \E t \in Instants : Tick(t)
       /\ UNCHANGED <<service, responderVars, levelVars, extVars>>
    \/ /\ \E k \in Sensors, h \in IngestHumValues : CreateMeasurement(k, h)
       /\ UNCHANGED <<service, clock, responderVars, levelVars, displayVars, templateVars,
                      engineVars, initDbVars, rateVars, chatVars, appVars>>

SpecIngest == InitIngest /\ [][NextIngest]_vars

\* C34: every stored measurement refers to an existing sensor; a request
\* names a sensor that exists once the request is over, created with the name
\* 'Unknown' under that id if it did not exist; the last_connection of that
\* sensor is the time of the request and no other last_connection changes.
C34_IngestKeepsReferences ==
    /\ [](\A i \in 1 .. Len(lt_rows) : lt_rows[i].sensor_id \in sensors)
    /\ [][cm_last' # cm_last =>
            LET k == cm_last'.sensor_id IN
            /\ k \in sensors'
            /\ k \notin sensors => (sensors' = sensors \cup {k} /\ sensor_name'[k] = "Unknown")
            /\ last_connection'[k] = clock
            /\ \A s \in Sensors \ {k} : last_connection'[s] = last_connection[s]
            /\ lt_rows' = Append(lt_rows, [sensor_id |-> k, humidity |-> lt_rows'[Len(lt_rows')].humidity,
                                           date |-> clock])
       ]_vars

\* ============================ TelegramBot of telegram_handler.py (rename)
\* The application handles one update at a time; an action is one handler
\* call, its awaits (API request, replies) drawn as outcomes.
Users == {"u1", "u2"}
SensorIds == {"1", "2"}
ButtonLabels == {"Rename", "Status"}
Texts == ButtonLabels \cup {"kitchen"}
ApiOutcomes == {"200", "other", "raise"}

ChatInit ==
    /\ ch_user_data = [u \in Users |-> <<>>]
    /\ ch_offered = {}
    /\ ch_last = <<>>

Seq01 == IF ch_last = <<>> THEN 0 ELSE 1 - ch_last.seq

\* handle_keyboard_input without a pending rename: the if/elif chain
RouteOf(text) ==
    IF text = "Status" THEN "cmd_status"
    ELSE IF text = "Rename" THEN "cmd_rename_humidity"
    ELSE "unknown"

\* process_sensor_rename: whether the pending state is cleared.  The `del`
\* follows the reply in the try; in the except clause the reply precedes
\* `context.user_data.pop`, so a reply that raises there leaves the handler
RenameClears(api, reply, err_reply) ==
    IF api # "raise" /\ reply THEN TRUE ELSE err_reply

\* what process_sensor_rename told the user
RenameReply(api, reply, err_reply) ==
    IF api # "raise" /\ reply
    THEN (IF api = "200" THEN "renamed" ELSE "failed")
    ELSE IF err_reply THEN "error" ELSE "raised"

\* a text message that is not a command: handle_keyboard_input
HandleText(u, text, api, reply, err_reply) ==
    /\ IF ch_user_data[u] # <<>>
       THEN /\ ch_user_data' = IF RenameClears(api, reply, err_reply)
                               THEN [ch_user_data EXCEPT ![u] = <<>>]
                               ELSE ch_user_data
            /\ ch_last' = [seq |-> Seq01, kind |-> "text", user |-> u, text |-> text,
                           route |-> "process_sensor_rename",
                           sensor_id |-> ch_user_data[u][1], new_name |-> text,
                           reply |-> RenameReply(api, reply, err_reply)]
            /\ UNCHANGED ch_offered
       ELSE /\ ch_last' = [seq |-> Seq01, kind |-> "text", user |-> u, text |-> text,
                           route |-> RouteOf(text), sensor_id |-> "", new_name |-> "",
                           reply |-> IF api = "raise" \/ ~reply THEN "error" ELSE "done"]
            /\ ch_offered' = IF RouteOf(text) = "cmd_rename_humidity" /\ api # "raise" /\ reply
                             THEN ch_offered \cup {u} ELSE ch_offered
            /\ UNCHANGED ch_user_data

\* button_handler: a press of "Rename <id>" on the inline keyboard;
\* `await query.answer()` comes first and may raise
PressButton(u, sid, answered) ==
    /\ u \in ch_offered
    /\ ch_user_data' = IF answered THEN [ch_user_data EXCEPT ![u] = <<sid>>] ELSE ch_user_data
    /\ ch_last' = [seq |-> Seq01, kind |-> "button", user |-> u, text |-> "",
                   route |-> "button_handler", sensor_id |-> sid, new_name |-> "",
                   reply |-> IF answered THEN "type new name" ELSE "raised"]
    /\ UNCHANGED ch_offered

InitChat ==
    /\ clock = 0
    /\ service = "chat" /\ IdleApi /\ IdleResponder /\ IdleLevel
    /\ IdleDisplay /\ IdleTemplates /\ IdleLatest /\ IdleEngine /\ IdleInitDb
    /\ IdleRate /\ IdleIngest /\ IdleApp
    /\ ChatInit

NextChat ==
    \/ /\ \E u \in Users, text \in Texts, api \in ApiOutcomes, reply \in BOOLEAN,
             err_reply \in BOOLEAN : HandleText(u, text, api, reply, err_reply)
       /\ UNCHANGED <<service, clock, apiVars, responderVars, levelVars, displayVars,
                      templateVars, latestVars, engineVars, initDbVars, rateVars, ingestVars,
                      appVars>>
    \/ /\ \E u \in Users, sid \in SensorIds, answered \in BOOLEAN : PressButton(u, sid, answered)
       /\ UNCHANGED <<service, clock, apiVars, responderVars, levelVars, displayVars,
                      templateVars, latestVars, engineVars, initDbVars, rateVars, ingestVars,
                      appVars>>

SpecChat == InitChat /\ [][NextChat]_vars

\* a text message of user u is handled in this step
TextHandled(u) == ch_last' # ch_last /\ ch_last'.kind = "text" /\ ch_last'.user = u

\* C35: a press of the inline button sets renaming_sensor_id of that user;
\* the next text message of a user with a pending rename is taken as the new
\* name of that sensor whatever its content, and when it has been processed
\* the user's pending state is cleared in every outcome; a text message of a
\* user without a pending rename is routed as a command; no update changes
\* the state of another user.
C35_RenameConversation ==
    [][\A u \in Users :
         /\ (ch_last' # ch_last /\ ch_last'.kind = "button" /\ ch_last'.user = u
             /\ ch_last'.reply # "raised")
              => ch_user_data'[u] = <<ch_last'.sensor_id>>
         /\ (TextHandled(u) /\ ch_user_data[u] # <<>>)
              => /\ ch_last'.route = "process_sensor_rename"
                 /\ ch_last'.new_name = ch_last'.text
                 /\ ch_last'.sensor_id = ch_user_data[u][1]
                 /\ ch_user_data'[u] = <<>>
         /\ (TextHandled(u) /\ ch_user_data[u] = <<>>)
              => /\ ch_last'.route = RouteOf(ch_last'.text)
                 /\ ch_user_data'[u] = <<>>
         /\ (ch_last' # ch_last /\ ch_last'.user # u) => ch_user_data'[u] = ch_user_data[u]
      ]_vars

\* ============================ AsyncApplication of telegram_responder/main.py
\* run() of an AsyncApplication whose fields are as lines 28-32 of __init__
\* assign them (monitor, bot and both tasks None, shutdown_event clear); the
\* call `TelegramBot(TELEGRAM_BOT_TOKEN)` of line 27, one argument short of
\* TelegramBot.__init__, is not part of the model.  A task is "new" until
\* its coroutine has first run.
AppTasks == {"monitor", "bot"}
CallOutcomes == {"ok", "raise"}

AppInit ==
    /\ ap_pc = "initialize"
    /\ ap_event = FALSE
    /\ ap_monitor = FALSE /\ ap_bot = FALSE
    /\ ap_monitor_task = "None" /\ ap_bot_task = "None"
    /\ ap_cancel = {}
    /\ ap_bot_running = FALSE
    /\ ap_failed = FALSE
    /\ ap_log = <<>>

TaskState(k) == IF k = "monitor" THEN ap_monitor_task ELSE ap_bot_task

\* signal_handler: `app.shutdown_event.set()`
SignalArrives ==
    /\ ap_pc \in {"initialize", "start_services", "wait"}
    /\ ~ap_event
    /\ ap_event' = TRUE
    /\ UNCHANGED <<ap_pc, ap_monitor, ap_bot, ap_monitor_task, ap_bot_task, ap_cancel,
                   ap_bot_running, ap_failed, ap_log>>

\* run(): `await self.initialize()`; the constructor of TelegramBot may raise,
\* then `except Exception: ... raise` and `finally: await self.shutdown()`
AppInitialize(outcome) ==
    /\ ap_pc = "initialize"
    /\ ap_monitor' = TRUE
    /\ IF outcome = "ok"
       THEN ap_bot' = TRUE /\ ap_pc' = "start_services" /\ UNCHANGED ap_failed
       ELSE ap_bot' = FALSE /\ ap_pc' = "shutdown" /\ ap_failed' = TRUE
    /\ UNCHANGED <<ap_event, ap_monitor_task, ap_bot_task, ap_cancel, ap_bot_running, ap_log>>

\* start_services: monitor.start_async creates the task of the monitor, then
\* `asyncio.create_task(self.bot.run_async())`
StartServices ==
    /\ ap_pc = "start_services"
    /\ ap_monitor_task' = "new"
    /\ ap_bot_task' = "new"
    /\ ap_pc' = "wait"
    /\ UNCHANGED <<ap_event, ap_monitor, ap_bot, ap_cancel, ap_bot_running, ap_failed, ap_log>>

\* `await self.shutdown_event.wait()` returns; `finally: await self.shutdown()`
WaitReturns ==
    /\ ap_pc = "wait" /\ ap_event
    /\ ap_pc' = "shutdown"
    /\ UNCHANGED <<ap_event, ap_monitor, ap_bot, ap_monitor_task, ap_bot_task, ap_cancel,
                   ap_bot_running, ap_failed, ap_log>>

AfterStopMonitor == IF ap_bot THEN "stop_bot" ELSE "cancel_tasks"

\* shutdown(): `self.shutdown_event.set()`, then `if self.monitor:`
ShutdownBegins ==
    /\ ap_pc = "shutdown"
    /\ ap_event' = TRUE
    /\ ap_pc' = IF ap_monitor THEN "stop_monitor" ELSE AfterStopMonitor
    /\ UNCHANGED <<ap_monitor, ap_bot, ap_monitor_task, ap_bot_task, ap_cancel,
                   ap_bot_running, ap_failed, ap_log>>

\* Monitor.stop_async up to `await self.task`: cancel() if the task is not done
StopMonitorCall ==
    /\ ap_pc = "stop_monitor"
    /\ ap_cancel' = IF ap_monitor_task \in {"new", "alive"}
                    THEN ap_cancel \cup {"monitor"} ELSE ap_cancel
    /\ ap_pc' = "stop_monitor_wait"
    /\ UNCHANGED <<ap_event, ap_monitor, ap_bot, ap_monitor_task, ap_bot_task,
                   ap_bot_running, ap_failed, ap_log>>

\* variant: an exception of monitor.stop_async ends shutdown()
StopMonitorEndsFatal(outcome) ==
    /\ ap_pc = "stop_monitor_wait"
    /\ outcome = "ok" => ap_monitor_task \in {"None", "done"}
    /\ ap_log' = Append(ap_log, [call |-> "monitor.stop_async", outcome |-> outcome])
    /\ ap_pc' = IF outcome = "ok" THEN AfterStopMonitor
                ELSE IF ap_failed THEN "raised" ELSE "returned"
    /\ UNCHANGED <<ap_event, ap_monitor, ap_bot, ap_monitor_task, ap_bot_task, ap_cancel,
                   ap_bot_running, ap_failed>>

\* `await self.monitor.stop_async()` is over: it returned once the task was
\* done, or it raised and `except Exception` of shutdown() logged the error
StopMonitorEnds(outcome) ==
    /\ ap_pc = "stop_monitor_wait"
    /\ outcome = "ok" => ap_monitor_task \in {"None", "done"}
    /\ ap_log' = Append(ap_log, [call |-> "monitor.stop_async", outcome |-> outcome])
    /\ ap_pc' = AfterStopMonitor
    /\ UNCHANGED <<ap_event, ap_monitor, ap_bot, ap_monitor_task, ap_bot_task, ap_cancel,
                   ap_bot_running, ap_failed>>

\* `await self.bot.stop_async()`: `self.running = False`, then the stops of
\* the application; returned or raised, shutdown() goes on
StopBot(outcome) ==
    /\ ap_pc = "stop_bot"
    /\ ap_bot_running' = FALSE
    /\ ap_log' = Append(ap_log, [call |-> "bot.stop_async", outcome |-> outcome])
    /\ ap_pc' = "cancel_tasks"
    /\ UNCHANGED <<ap_event, ap_monitor, ap_bot, ap_monitor_task, ap_bot_task, ap_cancel,
                   ap_failed>>

\* the tasks shutdown() still has to cancel
Remaining == {k \in AppTasks : TaskState(k) \in {"new", "alive"}}
ShutdownResult == IF ap_failed THEN "raised" ELSE "returned"

\* "Cancel remaining tasks": cancel() on each task that is not done
CancelTasks ==
    /\ ap_pc = "cancel_tasks"
    /\ ap_cancel' = ap_cancel \cup Remaining
    /\ ap_pc' = IF Remaining = {} THEN ShutdownResult ELSE "gather"
    /\ UNCHANGED <<ap_event, ap_monitor, ap_bot, ap_monitor_task, ap_bot_task,
                   ap_bot_running, ap_failed, ap_log>>

\* `await asyncio.gather(*tasks_to_cancel, return_exceptions=True)` returns
GatherReturns ==
    /\ ap_pc = "gather"
    /\ Remaining = {}
    /\ ap_pc' = ShutdownResult
    /\ UNCHANGED <<ap_event, ap_monitor, ap_bot, ap_monitor_task, ap_bot_task, ap_cancel,
                   ap_bot_running, ap_failed, ap_log>>

\* run_periodic_checks: first run of the task, or the CancelledError that
\* ends it (`except asyncio.CancelledError: break`)
MonitorTaskRuns ==
    /\ ap_monitor_task \in {"new", "alive"}
    /\ ap_monitor_task' = IF "monitor" \in ap_cancel THEN "done" ELSE "alive"
    /\ ap_monitor_task' # ap_monitor_task
    /\ UNCHANGED <<ap_pc, ap_event, ap_monitor, ap_bot, ap_bot_task, ap_cancel,
                   ap_bot_running, ap_failed, ap_log>>

\* run_async: first run of the task (`self.running = True`), the end of
\* `while self.running`, or the CancelledError that ends it
BotTaskRuns ==
    /\ ap_bot_task \in {"new", "alive"}
    /\ IF "bot" \in ap_cancel
       THEN ap_bot_task' = "done" /\ UNCHANGED ap_bot_running
       ELSE IF ap_bot_task = "new"
       THEN ap_bot_task' = "alive" /\ ap_bot_running' = TRUE
       ELSE ap_bot_task' = "done" /\ ~ap_bot_running /\ UNCHANGED ap_bot_running
    /\ UNCHANGED <<ap_pc, ap_event, ap_monitor, ap_bot, ap_monitor_task, ap_cancel,
                   ap_failed, ap_log>>

\* run_async raises (initialize, start or start_polling of the application)
BotTaskFails ==
    /\ ap_bot_task = "alive" /\ ap_bot_running /\ "bot" \notin ap_cancel
    /\ ap_bot_task' = "done"
    /\ UNCHANGED <<ap_pc, ap_event, ap_monitor, ap_bot, ap_monitor_task, ap_cancel,
                   ap_bot_running, ap_failed, ap_log>>

\* the steps of run() and of the shutdown() it awaits
RunSteps ==
    \/ \E outcome \in CallOutcomes : AppInitialize(outcome)
    \/ StartServices
    \/ WaitReturns
    \/ ShutdownBegins
    \/ StopMonitorCall
    \/ \E outcome \in CallOutcomes : StopMonitorEnds(outcome)
    \/ \E outcome \in CallOutcomes : StopBot(outcome)
    \/ CancelTasks
    \/ GatherReturns

AppOthers ==
    UNCHANGED <<service, clock, apiVars, responderVars, levelVars, displayVars, templateVars,
                latestVars, engineVars, initDbVars, rateVars, ingestVars, chatVars>>

AppRun == RunSteps /\ AppOthers
AppMonitorTask == MonitorTaskRuns /\ AppOthers
AppBotTask == BotTaskRuns /\ AppOthers

InitApp ==
    /\ clock = 0
    /\ service = "app" /\ IdleApi /\ IdleResponder /\ IdleLevel
    /\ IdleDisplay /\ IdleTemplates /\ IdleLatest /\ IdleEngine /\ IdleInitDb
    /\ IdleRate /\ IdleIngest /\ IdleChat
    /\ AppInit

NextApp ==
    \/ AppRun
    \/ AppMonitorTask
    \/ AppBotTask
    \/ SignalArrives /\ AppOthers
    \/ BotTaskFails /\ AppOthers

\* the event loop runs run() and both tasks whenever they can run
SpecApp ==
    /\ InitApp /\ [][NextApp]_vars
    /\ WF_vars(AppRun) /\ WF_vars(AppMonitorTask) /\ WF_vars(AppBotTask)

ShutdownOver == ap_pc \in {"returned", "raised"}
Attempted(call) == \E i \in 1 .. Len(ap_log) : ap_log[i].call = call
PastStops == ap_pc \in {"cancel_tasks", "gather", "returned", "raised"}

\* C36: once the shutdown event is set or run() has failed, shutdown() runs
\* and ends; it calls monitor.stop_async before bot.stop_async, each at most
\* once; an exception of monitor.stop_async does not keep it from calling
\* bot.stop_async; when it is over neither the monitor task nor the bot task
\* is left running.
C36_AlwaysShutsDown ==
    /\ [](/\ Len(ap_log) <= 2
          /\ \A i, j \in 1 .. Len(ap_log) :
                (ap_log[i].call = "bot.stop_async" /\ ap_log[j].call = "monitor.stop_async")
                    => j < i
          /\ PastStops => /\ ap_monitor => Attempted("monitor.stop_async")
                          /\ ap_bot => Attempted("bot.stop_async")
          /\ ShutdownOver => /\ ap_event
                             /\ ap_monitor_task \in {"None", "done"}
                             /\ ap_bot_task \in {"None", "done"})
    /\ (ap_event \/ ap_failed) ~> ShutdownOver

\* C36 witness: shutdown() is over after monitor.stop_async raised while the
\* monitor task was still running; bot.stop_async was called and both tasks
\* are done
C36_Witness ==
    /\ ShutdownOver
    /\ ap_log = <<[call |-> "monitor.stop_async", outcome |-> "raise"],
                  [call |-> "bot.stop_async", outcome |-> "ok"]>>
    /\ ap_monitor_task = "done" /\ ap_bot_task = "done"
    /\ AppTasks \subseteq ap_cancel
====
